---- MODULE Spec2Model ----
(***************************************************************************)
(* Discovery-and-Cache subsystem of nerede-yesem: the result cache with    *)
(* staleness semantics (CacheService), the background job scheduler        *)
(* (BackgroundJobService) and the request handler that joins them          *)
(* (POST /api/ai/recommend), with the cron endpoint (POST                  *)
(* /api/jobs/process).  Every await of the source is a step boundary: the  *)
(* database operation before it is one atomic step, and another request    *)
(* or cron invocation may run between two steps.                           *)
(*                                                                         *)
(* Time is an integer clock; one unit stands for ten days, so the default  *)
(* TTL of 30 days is 3 units.                                              *)
(***************************************************************************)
EXTENDS Integers, Sequences, FiniteSets, TLC

\* ------------------------------------------------------------------ bounds
MaxTime == 5
\* env.CACHE_TTL_DAYS and env.CACHE_STALE_GRACE_HOURS are configuration
TtlMs == 3
StaleGraceMs == 1
MaxHits == 2
MaxCacheIds == 2

\* ------------------------------------------------------- program constants
\* 30 * 24 * 60 * 60 * 1000 in processRefreshCache, in clock units
RefreshTtlMs == 3

\* cleanupOldJobs(7) at the cron endpoint: the retention window, in clock units
JobRetentionMs == 1
\* backgroundJob.maxAttempts (a column default of the schema)
MaxAttempts == 2
\* body.limit of POST /api/jobs/process
JobLimit == 2
MaxJobs == 2
\* cap on the attempts counter of one job
MaxFailures == 3

\* concurrent HTTP invocations (requests and cron calls share the one process)
Procs == {"p1", "p2"}
Keys == {"k1"}
PlaceIds == {101}

\* what a discovery + analysis run hands to store(): the sorted result list,
\* the generated message and the ids of the restaurants that were scraped
Outcomes ==
    { [results |-> <<1>>, message |-> "m1", sourceIds |-> {1}],
      [results |-> <<2, 1>>, message |-> "m2", sourceIds |-> {1, 2}] }

NoOutcome == [results |-> <<>>, message |-> "", sourceIds |-> {}]

\* the absent row of searchCache (findUnique returns null)
NoEntry ==
    [id |-> 0, status |-> "none", expiresAt |-> 0, hitCount |-> 0,
     lastAccessedAt |-> 0, results |-> <<>>, message |-> "", restaurants |-> {}]

\* the absent row of backgroundJob
NoJob ==
    [type |-> "none", target |-> 0, status |-> "none", attempts |-> 0,
     lastError |-> "", priority |-> 0, scheduledAt |-> 0, completedAt |-> 0]

NoResp == [kind |-> "none", results |-> <<>>, message |-> ""]

NoCall == [type |-> "none", target |-> 0]

JobIds == 1..MaxJobs

VARIABLES
    now,        \* the wall clock (new Date(), Date.now())
    cache,      \* searchCache table: cacheKey -> row (NoEntry when absent)
    nextCacheId,\* the next generated searchCache.id
    jobs,       \* backgroundJob table: id -> row (NoJob when absent)
    nextJobId,  \* the next generated backgroundJob.id
    serial,     \* TRUE: scheduleRefresh calls, and processing passes, never overlap
    pc,         \* invocation -> position in its handler
    key,        \* request -> cache key of its parameters
    snap,       \* the searchCache row read by lookup / processRefreshCache
    look,       \* request -> status reported by lookup
    out,        \* request -> outcome of discovery + analysis
    exist,      \* request -> store()'s `existing` was non-null
    stored,     \* request -> what store() returned: "none", "ok" or "null"
    sched,      \* what scheduleRefresh / scheduleScrape returned: job id, 0 for null, -1 before
    call,       \* scheduleRefresh / scheduleScrape -> the job type and target asked for
    found,      \* scheduleRefresh / scheduleScrape -> id of `existing`, 0 for null
    resp,       \* request -> the response body sent
    batch,      \* processAllPending -> the jobs still to process
    job,        \* processJob -> jobId
    upd,        \* processJob -> `updated.attempts` of the catch block
    lookedAt,   \* history: searchCache.id -> time its latest lookup() returned, 0 for never
    params,     \* generateCacheKey: the two parameter sets (CacheKey) under comparison
    cacheKey,   \* generateCacheKey: the key returned for each, <<>> before the call
    usedProxies,\* ProxyService.usedProxies: placeId -> the Set of addresses, or no entry
    gp,         \* getProxy call -> its arguments, locals and position
    issued,     \* history: placeId -> addresses getProxy returned since the last clear
    cr,         \* scrapeReviews / scrapeSearchResults call -> its locals and position
    sessions,   \* browser sessions (puppeteer.launch) that are open
    usage,      \* proxyUsage table: <<proxyAddress, success>> -> number of records
    col,        \* collectReviews call: its locals and position
    quota,      \* systemSetting rows api_call_month and api_call_count (0: no row)
    curMonth,   \* getCurrentMonth(): the calendar month of the clock
    maps,       \* what the crawler and the official API find, and env.DATABASE_URL
    dv,         \* discover call -> its locals and position
    calls       \* requests sent to the official API: nearby searches by month, details

procvars == <<pc, key, snap, look, out, exist, stored, call, sched, found, resp,
              batch, job, upd>>
corevars == <<now, cache, nextCacheId, jobs, nextJobId, serial, procvars, lookedAt>>
keyvars == <<params, cacheKey>>
\* the state of the discovery services (below)
proxyvars == <<usedProxies, gp, issued>>
crawlvars == <<cr, sessions, usage, col>>
discvars == <<quota, curMonth, maps, dv, calls>>
svcvars == <<keyvars, proxyvars, crawlvars, discvars>>
vars == <<corevars, svcvars>>

\* ------------------------------------------------------------ cacheDuration
getExpiryDate(t) == t + TtlMs

\* the comparison the wrong way round
isExpired_reversed(t, expiresAt) == expiresAt > t

isExpired(t, expiresAt) == t > expiresAt

\* a grace window that leaves out its last instant
isStale_open(t, expiresAt) ==
    LET staleThreshold == expiresAt - StaleGraceMs
    IN  t > staleThreshold /\ t < expiresAt

isStale(t, expiresAt) ==
    LET staleThreshold == expiresAt - StaleGraceMs
    IN  t > staleThreshold /\ t <= expiresAt

\* ------------------------------------------------------------- CacheService
\* the status lookup() reports for the row findUnique returned, at time t
lookupStatus(entry, t) ==
    IF entry.id = 0 THEN "miss"
    ELSE IF isExpired(t, entry.expiresAt) THEN "expired"
    ELSE IF isStale(t, entry.expiresAt) THEN "stale"
    ELSE "hit"

\* updateStatus(id, status): a missing row makes update throw, which is swallowed
updateStatus(c, id, status) ==
    [k \in Keys |-> IF c[k].id = id /\ id # 0
                      THEN [c[k] EXCEPT !.status = status]
                      ELSE c[k]]

\* recordHit(id): atomic increment, swallowed when the row is gone
recordHit(c, id, t) ==
    [k \in Keys |-> IF c[k].id = id /\ id # 0
                      THEN [c[k] EXCEPT !.hitCount = @ + 1, !.lastAccessedAt = t]
                      ELSE c[k]]

\* an update that appends to the list it finds
storeUpdate_merge(entry, o, t) ==
    [entry EXCEPT !.results = @ \o o.results, !.message = o.message,
                  !.status = "fresh", !.expiresAt = getExpiryDate(t),
                  !.restaurants = @ \cup o.sourceIds]

\* the row prisma.searchCache.update writes in store()
storeUpdate(entry, o, t) ==
    [entry EXCEPT !.results = o.results, !.message = o.message,
                  !.status = "fresh", !.expiresAt = getExpiryDate(t),
                  !.restaurants = o.sourceIds]

\* the row prisma.searchCache.create writes in store(); hitCount and
\* lastAccessedAt take the column defaults (0, now())
storeCreate(id, o, t) ==
    [id |-> id, status |-> "fresh", expiresAt |-> getExpiryDate(t), hitCount |-> 0,
     lastAccessedAt |-> t, results |-> o.results, message |-> o.message,
     restaurants |-> o.sourceIds]

\* cleanupExpired(): deleteMany of the expired, access-cold rows
cleanupExpired(c, t) ==
    [k \in Keys |-> IF c[k].id # 0 /\ c[k].expiresAt < t
                         /\ c[k].lastAccessedAt < t - StaleGraceMs
                      THEN NoEntry
                      ELSE c[k]]

\* ----------------------------------------------------- BackgroundJobService
NonTerminal == {"pending", "running"}

\* findFirst that looks for pending jobs only
findExisting_pendingOnly(js, type, target) ==
    {i \in JobIds : /\ js[i].type = type
                    /\ js[i].status = "pending"
                    /\ js[i].target = target}

\* the rows findFirst of scheduleRefresh / scheduleScrape can return
findExisting(js, type, target) ==
    {i \in JobIds : /\ js[i].type = type
                    /\ js[i].status \in NonTerminal
                    /\ js[i].target = target}

\* the row createJob inserts (attempts 0, status pending by column default)
createJob(type, target, priority, t) ==
    [type |-> type, target |-> target, status |-> "pending", attempts |-> 0,
     lastError |-> "", priority |-> priority, scheduledAt |-> t, completedAt |-> 0]

\* orderBy priority desc, scheduledAt asc (rows that tie come in id order)
Before(js, i, j) ==
    \/ js[i].priority > js[j].priority
    \/ js[i].priority = js[j].priority /\ js[i].scheduledAt < js[j].scheduledAt
    \/ js[i].priority = js[j].priority /\ js[i].scheduledAt = js[j].scheduledAt /\ i < j

RECURSIVE Ordered(_, _)
Ordered(js, S) ==
    IF S = {} THEN <<>>
    ELSE LET first == CHOOSE i \in S : \A j \in S \ {i} : Before(js, i, j)
         IN  <<first>> \o Ordered(js, S \ {first})

Take(s, n) == SubSeq(s, 1, IF Len(s) < n THEN Len(s) ELSE n)

\* getPendingJobs(limit)
getPendingJobs(js, t, limit) ==
    Take(Ordered(js, {i \in JobIds : js[i].status = "pending" /\ js[i].scheduledAt <= t}),
         limit)

\* a catch block that allows one attempt too many
statusAfterFailure_strict(attempts, maxAttempts) ==
    IF attempts > maxAttempts THEN "failed" ELSE "pending"

\* the status the catch block of processJob writes
statusAfterFailure(attempts, maxAttempts) ==
    IF attempts >= maxAttempts THEN "failed" ELSE "pending"

\* cleanupOldJobs(olderThanDays): deleteMany of terminal rows completed before the threshold
cleanupOldJobs(js, t, olderThan) ==
    [i \in JobIds |-> IF /\ js[i].status \in {"completed", "failed"}
                         /\ js[i].completedAt # 0
                         /\ js[i].completedAt < t - olderThan
                        THEN NoJob
                        ELSE js[i]]

\* ------------------------------------------------------------------ state
InitProcs ==
    /\ pc = [p \in Procs |-> "idle"]
    /\ key = [p \in Procs |-> "k1"]
    /\ snap = [p \in Procs |-> NoEntry]
    /\ look = [p \in Procs |-> "none"]
    /\ out = [p \in Procs |-> NoOutcome]
    /\ exist = [p \in Procs |-> FALSE]
    /\ stored = [p \in Procs |-> "none"]
    /\ call = [p \in Procs |-> NoCall]
    /\ sched = [p \in Procs |-> -1]
    /\ found = [p \in Procs |-> 0]
    /\ resp = [p \in Procs |-> NoResp]
    /\ batch = [p \in Procs |-> <<>>]
    /\ job = [p \in Procs |-> 0]
    /\ upd = [p \in Procs |-> 0]
    /\ lookedAt = [i \in 1..MaxCacheIds |-> 0]

\* ------------------------------------------------------------- ProxyService
ProxyTiers == {"high", "medium", "low"}
Targets == {"t1", "t2"}
Callers == {"c1", "c2"}

\* what GET /api/v1/random/{tier} of the upstream provider can hand out
Pool == [high |-> {"a1", "a2"}, medium |-> {"a2", "a3"}, low |-> {"a4"}]
Addrs == UNION {Pool[t] : t \in ProxyTiers}

NoProxy == [address |-> "", tier |-> ""]
NoSet == [present |-> FALSE, addrs |-> {}]

\* a getProxy call that has not been made
NoGetProxy ==
    [pc |-> "idle", placeId |-> "", preferredTier |-> "", tiers |-> <<>>, i |-> 0,
     usedForPlace |-> "", proxy |-> NoProxy, concurrent |-> {}]

InitProxy ==
    /\ usedProxies = [t \in Targets |-> NoSet]
    /\ gp = [c \in Callers |-> NoGetProxy]
    /\ issued = [t \in Targets |-> {}]

\* getProxy: the order in which the tiers are asked for
tiersOf(preferredTier) ==
    IF preferredTier = "high" THEN <<"high", "medium">> ELSE <<"medium", "high">>

\* fetchProxy: usedForPlace = this.usedProxies.get(placeId) || new Set(); the
\* Set of the map is held by reference, the new Set is the caller's own
usedForPlaceOf(placeId) ==
    IF usedProxies[placeId].present THEN "shared" ELSE "private"

\* a membership test that never finds the address
usedHas_never(g, ip) == FALSE

\* usedForPlace.has(data.ip)
usedHas(g, ip) ==
    g.usedForPlace = "shared" /\ ip \in usedProxies[g.placeId].addrs

InFlight(c) == gp[c].pc \in {"fetch", "retry", "next"}

\* getProxy(placeId, preferredTier) up to the first await of fetchProxy
GetProxy(c) ==
    /\ gp[c].pc = "idle"
    /\ serial => \A d \in Callers : ~InFlight(d)
    /\ \E placeId \in Targets, preferredTier \in ProxyTiers :
         LET others == {d \in Callers \ {c} : InFlight(d)}
         IN  gp' = [d \in Callers |->
                      IF d = c
                        THEN [pc |-> "fetch", placeId |-> placeId,
                              preferredTier |-> preferredTier,
                              tiers |-> tiersOf(preferredTier), i |-> 1,
                              usedForPlace |-> usedForPlaceOf(placeId),
                              proxy |-> NoProxy, concurrent |-> others]
                      ELSE IF d \in others
                        THEN [gp[d] EXCEPT !.concurrent = @ \cup {c}]
                      ELSE gp[d]]
    /\ UNCHANGED <<corevars, keyvars, crawlvars, discvars, usedProxies, issued>>

\* this.usedProxies.get(placeId).add(address), after the Set was put in the map
\* when there was none
addUsed(placeId, address) ==
    [usedProxies EXCEPT ![placeId] = [present |-> TRUE, addrs |-> @.addrs \cup {address}]]

\* fetchProxy after its awaits: the response of the upstream provider
FetchProxy(c) ==
    /\ gp[c].pc = "fetch"
    /\ LET g == gp[c]
           tier == g.tiers[g.i]
       IN  \/ \* !response.ok, or a body without ip or port, or fetch threw: null
              /\ gp' = [gp EXCEPT ![c].pc = "next"]
              /\ UNCHANGED <<usedProxies, issued>>
           \/ \E ip \in Pool[tier] :
                IF usedHas(g, ip)
                  THEN /\ gp' = [gp EXCEPT ![c].pc = "retry"]
                       /\ UNCHANGED <<usedProxies, issued>>
                  ELSE /\ usedProxies' = addUsed(g.placeId, ip)
                       /\ issued' = [issued EXCEPT ![g.placeId] = @ \cup {ip}]
                       /\ gp' = [gp EXCEPT ![c].pc = "done",
                                           ![c].proxy = [address |-> ip, tier |-> tier]]
    /\ UNCHANGED <<corevars, keyvars, crawlvars, discvars>>

\* fetchProxyRetry after its awaits; add() on a map entry that is gone throws
\* and the catch returns null
FetchProxyRetry(c) ==
    /\ gp[c].pc = "retry"
    /\ LET g == gp[c]
           tier == g.tiers[g.i]
       IN  \/ /\ gp' = [gp EXCEPT ![c].pc = "next"]
              /\ UNCHANGED <<usedProxies, issued>>
           \/ \E ip \in Pool[tier] :
                IF usedHas(g, ip) \/ ~usedProxies[g.placeId].present
                  THEN /\ gp' = [gp EXCEPT ![c].pc = "next"]
                       /\ UNCHANGED <<usedProxies, issued>>
                  ELSE /\ usedProxies' = addUsed(g.placeId, ip)
                       /\ issued' = [issued EXCEPT ![g.placeId] = @ \cup {ip}]
                       /\ gp' = [gp EXCEPT ![c].pc = "done",
                                           ![c].proxy = [address |-> ip, tier |-> tier]]
    /\ UNCHANGED <<corevars, keyvars, crawlvars, discvars>>

\* getProxy: fetchProxy returned null; the next tier, or null when none is left
NextTier(c) ==
    /\ gp[c].pc = "next"
    /\ IF gp[c].i < Len(gp[c].tiers)
         THEN gp' = [gp EXCEPT ![c].i = @ + 1,
                               ![c].usedForPlace = usedForPlaceOf(gp[c].placeId),
                               ![c].pc = "fetch"]
         ELSE gp' = [gp EXCEPT ![c].pc = "done"]
    /\ UNCHANGED <<corevars, keyvars, crawlvars, discvars, usedProxies, issued>>

\* the caller has its answer and may call again
ProxyReturn(c) ==
    /\ gp[c].pc = "done"
    /\ gp' = [gp EXCEPT ![c] = NoGetProxy]
    /\ UNCHANGED <<corevars, keyvars, crawlvars, discvars, usedProxies, issued>>

\* clearUsedProxies(placeId), between two calls of getProxy
ClearUsedProxies(placeId) ==
    /\ \A d \in Callers : ~InFlight(d)
    /\ usedProxies[placeId].present
    /\ usedProxies' = [usedProxies EXCEPT ![placeId] = NoSet]
    /\ issued' = [issued EXCEPT ![placeId] = {}]
    /\ UNCHANGED <<corevars, keyvars, crawlvars, discvars, gp>>

\* clearAllUsedProxies(), between two calls of getProxy
ClearAllUsedProxies ==
    /\ \A d \in Callers : ~InFlight(d)
    /\ \E t \in Targets : usedProxies[t].present
    /\ usedProxies' = [t \in Targets |-> NoSet]
    /\ issued' = [t \in Targets |-> {}]
    /\ UNCHANGED <<corevars, keyvars, crawlvars, discvars, gp>>

\* ------------------------------------- scrapeReviews / scrapeSearchResults
\* const maxProxyAttempts = 10
MaxProxyAttempts == 10
MaxReviews == 2

\* what getProxy hands to a crawl: a proxy of the high or the medium tier, or null
CrawlProxies ==
    {NoProxy, [address |-> "a1", tier |-> "high"], [address |-> "a3", tier |-> "medium"]}
CrawlAddrs == {"a1", "a3"}

NoResult == [kind |-> "none", success |-> FALSE, items |-> 0, error |-> ""]
\* the call ended with an exception
Thrown == [kind |-> "thrown", success |-> FALSE, items |-> 0, error |-> "error"]

\* no call of collectReviews
NoCollect ==
    [pc |-> "idle", maxReviews |-> 0, reviews |-> <<>>, scrollAttempts |-> 0,
     lastReviewCount |-> 0, noNewReviewsCount |-> 0, seenDuplicate |-> FALSE,
     overCap |-> FALSE, threw |-> FALSE, ret |-> <<>>]

InitCrawl ==
    /\ cr = [pc |-> "idle", kind |-> "", attempt |-> 0, proxy |-> NoProxy,
             browser |-> FALSE, page |-> FALSE, raised |-> FALSE, connected |-> FALSE,
             ret |-> NoResult, result |-> NoResult]
    /\ sessions = 0
    /\ usage = [r \in CrawlAddrs \X BOOLEAN |-> 0]
    /\ col = NoCollect

\* scrapeReviews(url, placeId, options) or scrapeSearchResults(...) is called
CrawlStart(kind) ==
    /\ cr.pc = "idle"
    /\ cr' = [cr EXCEPT !.pc = "get_proxy", !.kind = kind, !.attempt = 1]
    /\ UNCHANGED <<corevars, keyvars, proxyvars, discvars, col, sessions, usage>>

\* proxy = await proxyService.getProxy(...)
AttemptGetProxy ==
    /\ cr.pc = "get_proxy"
    /\ \E pr \in CrawlProxies : cr' = [cr EXCEPT !.proxy = pr, !.pc = "init_browser"]
    /\ UNCHANGED <<corevars, keyvars, proxyvars, discvars, col, sessions, usage>>

\* browser = await this.initBrowser(proxy || undefined): puppeteer.launch
AttemptInitBrowser ==
    /\ cr.pc = "init_browser"
    /\ \/ /\ cr' = [cr EXCEPT !.browser = TRUE, !.pc = "create_page"]
          /\ sessions' = sessions + 1
       \/ /\ cr' = [cr EXCEPT !.pc = "attempt_failed"]
          /\ UNCHANGED sessions
    /\ UNCHANGED <<corevars, keyvars, proxyvars, discvars, col, usage>>

\* page = await this.createPage(browser, proxy || undefined)
AttemptCreatePage ==
    /\ cr.pc = "create_page"
    /\ \/ cr' = [cr EXCEPT !.page = TRUE, !.pc = "goto"]
       \/ cr' = [cr EXCEPT !.pc = "attempt_failed"]
    /\ UNCHANGED <<corevars, keyvars, proxyvars, discvars, col, sessions, usage>>

\* await page.goto(url, {timeout: proxyTimeout}); success leaves the loop
\* (connected notes that an attempt has succeeded)
AttemptGoto ==
    /\ cr.pc = "goto"
    /\ \/ cr' = [cr EXCEPT !.pc = "extract", !.connected = TRUE]
       \/ cr' = [cr EXCEPT !.pc = "attempt_failed"]
    /\ UNCHANGED <<corevars, keyvars, proxyvars, discvars, col, sessions, usage>>

\* proxyService.recordUsage(record): prisma.proxyUsage.create, whose failure is
\* logged and swallowed
recordUsage(u, proxy, success) ==
    {[u EXCEPT ![<<proxy.address, success>>] = @ + 1], u}

\* the catch of a failed attempt: recordUsage(success: false) when there is a proxy
AttemptFailed ==
    /\ cr.pc = "attempt_failed"
    /\ IF cr.proxy # NoProxy
         THEN usage' \in recordUsage(usage, cr.proxy, FALSE)
         ELSE usage' = usage
    /\ cr' = [cr EXCEPT !.pc = "close_failed"]
    /\ UNCHANGED <<corevars, keyvars, proxyvars, discvars, col, sessions>>

\* the catch of a failed attempt: close the browser, then retry or, after the last
\* attempt, throw to the outer catch; a close that throws goes there too
CloseFailed ==
    /\ cr.pc = "close_failed"
    /\ LET after == IF cr.attempt = MaxProxyAttempts
                      THEN [cr EXCEPT !.page = FALSE, !.browser = FALSE, !.pc = "catch"]
                      ELSE [cr EXCEPT !.page = FALSE, !.browser = FALSE,
                                      !.attempt = @ + 1, !.pc = "get_proxy"]
       IN  IF cr.browser
             THEN \/ /\ cr' = after
                     /\ sessions' = sessions - 1
                  \/ /\ cr' = [cr EXCEPT !.pc = "catch"]
                     /\ UNCHANGED sessions
             ELSE /\ cr' = after
                  /\ UNCHANGED sessions
    /\ UNCHANGED <<corevars, keyvars, proxyvars, discvars, col, usage>>

\* the steps on the loaded page: they yield the reviews / listings, or one of
\* them raises; scrapeSearchResults returns a failure when the results container
\* is not found
Extract ==
    /\ cr.pc = "extract"
    /\ \/ \E n \in 0..MaxReviews :
            cr' = [cr EXCEPT !.pc = "record_success",
                             !.ret = [kind |-> "returned", success |-> TRUE,
                                      items |-> n, error |-> ""]]
       \/ cr' = [cr EXCEPT !.pc = "catch"]
       \/ /\ cr.kind = "search"
          /\ cr' = [cr EXCEPT !.pc = "finally",
                              !.ret = [kind |-> "returned", success |-> FALSE,
                                       items |-> 0, error |-> "error"]]
    /\ UNCHANGED <<corevars, keyvars, proxyvars, discvars, col, sessions, usage>>

\* recordUsage(success: true) when there is a proxy, then return the result
RecordSuccess ==
    /\ cr.pc = "record_success"
    /\ IF cr.proxy # NoProxy
         THEN usage' \in recordUsage(usage, cr.proxy, TRUE)
         ELSE usage' = usage
    /\ cr' = [cr EXCEPT !.pc = "finally"]
    /\ UNCHANGED <<corevars, keyvars, proxyvars, discvars, col, sessions>>

\* the outer catch: return {success: false, reviews: [], error}
Catch ==
    /\ cr.pc = "catch"
    /\ cr' = [cr EXCEPT !.pc = "finally", !.raised = TRUE,
                        !.ret = [kind |-> "returned", success |-> FALSE,
                                 items |-> 0, error |-> "error"]]
    /\ UNCHANGED <<corevars, keyvars, proxyvars, discvars, col, sessions, usage>>

\* finally { if (browser) await browser.close() }: an exception of close()
\* replaces the pending return
Finally ==
    /\ cr.pc = "finally"
    /\ IF cr.browser
         THEN \/ /\ cr' = [cr EXCEPT !.pc = "done", !.result = cr.ret]
                 /\ sessions' = sessions - 1
              \/ /\ cr' = [cr EXCEPT !.pc = "done", !.result = Thrown]
                 /\ UNCHANGED sessions
         ELSE /\ cr' = [cr EXCEPT !.pc = "done", !.result = cr.ret]
              /\ UNCHANGED sessions
    /\ UNCHANGED <<corevars, keyvars, proxyvars, discvars, col, usage>>

\* ------------------------------------------------------------ collectReviews
\* Array.prototype.slice(0, n)
slice(list, n) == SubSeq(list, 1, IF Len(list) < n THEN Len(list) ELSE n)

\* const maxScrollAttempts = 10
MaxScrollAttempts == 10
\* env.MAX_REVIEWS_PER_RESTAURANT is configuration
DefaultMaxReviews == 4

\* the reviews the page can show: an author and a text each
Authors == {"u1", "u2"}
Texts == {"x1", "x2"}
ReviewCards == [authorName : Authors, text : Texts]
\* what one extraction of the visible cards returns
Batches ==
    {<<>>} \cup {<<a>> : a \in ReviewCards}
           \cup {<<a, b>> : a \in ReviewCards, b \in ReviewCards}

\* a test that looks at the review collected last only
isDuplicateReview_lastOnly(reviews, review) ==
    /\ reviews # <<>>
    /\ reviews[Len(reviews)].text = review.text
    /\ reviews[Len(reviews)].authorName = review.authorName

\* reviews.some(r => r.text === review.text && r.authorName === review.authorName)
isDuplicateReview(reviews, review) ==
    \E k \in 1..Len(reviews) :
        reviews[k].text = review.text /\ reviews[k].authorName = review.authorName

\* the for loop "Add unique reviews"
RECURSIVE addUnique(_, _, _)
addUnique(reviews, newReviews, maxReviews) ==
    IF newReviews = <<>> THEN reviews
    ELSE LET review == Head(newReviews)
         IN  IF ~isDuplicateReview(reviews, review) /\ Len(reviews) < maxReviews
               THEN addUnique(Append(reviews, review), Tail(newReviews), maxReviews)
               ELSE addUnique(reviews, Tail(newReviews), maxReviews)

\* a loop condition without the bound on the scrolls
keepCollecting_uncapped(len, maxReviews, scrollAttempts) == len < maxReviews

\* while (reviews.length < maxReviews && scrollAttempts < maxScrollAttempts)
keepCollecting(len, maxReviews, scrollAttempts) ==
    len < maxReviews /\ scrollAttempts < MaxScrollAttempts

\* return reviews.slice(0, maxReviews)
collected(c) == [c EXCEPT !.pc = "done", !.ret = slice(c.reviews, c.maxReviews)]

\* collectReviews(page, options) up to the loop: maxReviews = options.maxReviews ||
\* this.maxReviews, then the page.evaluate of the debug information, which can throw
CollectStart ==
    /\ col.pc = "start"
    /\ \/ col' = IF keepCollecting(0, col.maxReviews, 0)
                   THEN [col EXCEPT !.pc = "extract"]
                   ELSE collected(col)
       \/ col' = [col EXCEPT !.pc = "done", !.threw = TRUE]
    /\ UNCHANGED <<corevars, keyvars, proxyvars, discvars, cr, sessions, usage>>

\* one iteration up to the scroll: expandReviews, the extraction of the visible
\* cards, "Add unique reviews" and the test for new reviews (seenDuplicate and
\* overCap note that a card was skipped as a duplicate / a new card was left
\* out because the list was full)
CollectExtract ==
    /\ col.pc = "extract"
    /\ \/ \E newReviews \in Batches :
            LET reviews == addUnique(col.reviews, newReviews, col.maxReviews)
                noNew == Len(reviews) = col.lastReviewCount
                dup == \E k \in 1..Len(newReviews) :
                          isDuplicateReview(SubSeq(newReviews, 1, k - 1) \o col.reviews,
                                            newReviews[k])
                full == \E k \in 1..Len(newReviews) :
                           /\ ~isDuplicateReview(reviews, newReviews[k])
                           /\ Len(reviews) = col.maxReviews
                c == [col EXCEPT !.reviews = reviews,
                                 !.seenDuplicate = @ \/ dup,
                                 !.overCap = @ \/ full]
            IN  IF noNew /\ col.noNewReviewsCount + 1 >= 3
                  THEN col' = collected([c EXCEPT !.noNewReviewsCount = @ + 1])
                  ELSE col' = [c EXCEPT !.noNewReviewsCount = IF noNew THEN @ + 1 ELSE 0,
                                        !.lastReviewCount = Len(reviews),
                                        !.pc = "scroll"]
       \/ col' = [col EXCEPT !.pc = "done", !.threw = TRUE]
    /\ UNCHANGED <<corevars, keyvars, proxyvars, discvars, cr, sessions, usage>>

\* the rest of the iteration: scroll the container, delay(1500), scrollAttempts++,
\* then the loop condition; the page.evaluate of the scroll can throw
CollectScroll ==
    /\ col.pc = "scroll"
    /\ \/ LET c == [col EXCEPT !.scrollAttempts = @ + 1]
          IN  col' = IF keepCollecting(Len(c.reviews), c.maxReviews, c.scrollAttempts)
                       THEN [c EXCEPT !.pc = "extract"]
                       ELSE collected(c)
       \/ col' = [col EXCEPT !.pc = "done", !.threw = TRUE]
    /\ UNCHANGED <<corevars, keyvars, proxyvars, discvars, cr, sessions, usage>>

\* ----------------------------------------------------------- String methods
\* String.prototype.toLowerCase, character by character.  "I" is the capital
\* dotless I and "Idot" the capital dotted I (U+0130), which becomes "i" followed
\* by the combining dot (U+0307); "idotless" is the small dotless i (U+0131).
lowerOf(ch) ==
    CASE ch = "L" -> <<"l">>
      [] ch = "A" -> <<"a">>
      [] ch = "I" -> <<"i">>
      [] ch = "Idot" -> <<"i", "dot">>
      [] OTHER -> <<ch>>

RECURSIVE toLowerCase(_)
toLowerCase(s) == IF s = <<>> THEN <<>> ELSE lowerOf(Head(s)) \o toLowerCase(Tail(s))

RECURSIVE trimStart(_)
trimStart(s) == IF s # <<>> /\ Head(s) = " " THEN trimStart(Tail(s)) ELSE s

RECURSIVE trimEnd(_)
trimEnd(s) ==
    IF s # <<>> /\ s[Len(s)] = " " THEN trimEnd(SubSeq(s, 1, Len(s) - 1)) ELSE s

trim(s) == trimEnd(trimStart(s))

\* ------------------------------------------------ RestaurantDiscoveryService
\* restaurant names: the same name in capitals ("AİI") and in proper case
\* ("Aiı"), a longer name that contains it, and another name
NameUpper == <<"A", "Idot", "I">>
NameProper == <<"A", "i", "idotless">>
NameLonger == <<"a", "i", "idotless", " ", " ", "l">>
NameOther == <<"l", "-", "a">>

\* the characters /[^a-zçğıöşü0-9\s]/gi keeps
KeptChars == {"a", "i", "l", "idotless", " "}

RECURSIVE keepOnly(_)
keepOnly(s) ==
    IF s = <<>> THEN <<>>
    ELSE IF Head(s) \in KeptChars THEN <<Head(s)>> \o keepOnly(Tail(s))
    ELSE keepOnly(Tail(s))

\* replace(/\s+/g, ' ')
RECURSIVE collapseSpaces(_)
collapseSpaces(s) ==
    IF Len(s) < 2 THEN s
    ELSE IF s[1] = " " /\ s[2] = " " THEN collapseSpaces(Tail(s))
    ELSE <<Head(s)>> \o collapseSpaces(Tail(s))

\* a lowercasing that follows the Turkish alphabet: I -> dotless i, dotted I -> i
turkishLowerOf(ch) ==
    CASE ch = "L" -> <<"l">>
      [] ch = "A" -> <<"a">>
      [] ch = "I" -> <<"idotless">>
      [] ch = "Idot" -> <<"i">>
      [] OTHER -> <<ch>>

RECURSIVE toTurkishLowerCase(_)
toTurkishLowerCase(s) ==
    IF s = <<>> THEN <<>> ELSE turkishLowerOf(Head(s)) \o toTurkishLowerCase(Tail(s))

normalizeName(name) == trim(collapseSpaces(keepOnly(toLowerCase(name))))

\* String.prototype.includes
includes(s, sub) ==
    \E i \in 0..(Len(s) - Len(sub)) : SubSeq(s, i + 1, i + Len(sub)) = sub

areNamesSimilar(a, b) ==
    LET normA == normalizeName(a)
        normB == normalizeName(b)
    IN  normA = normB \/ includes(normA, normB) \/ includes(normB, normA)

\* positions lie on one meridian, in units of 50 m; 0 stands for an undefined
\* coordinate
calculateDistance(p1, p2) == IF p1 < p2 THEN p2 - p1 ELSE p1 - p2

\* thresholdKm = 0.1, in units of 50 m
CloseThreshold == 2

areClose(p1, p2, thresholdKm) ==
    IF p1 = 0 \/ p2 = 0 THEN FALSE
    ELSE calculateDistance(p1, p2) <= thresholdKm

\* Math.log10(c + 1) for the review counts of the model
log10Plus1(c) == CASE c = 0 -> 0 [] c = 9 -> 1 [] c = 99 -> 2

\* rating x log10(reviewCount + 1); an undefined rating or count is 0
calculateProminenceScore(rating, reviewCount) == rating * log10Plus1(reviewCount)

apiToDiscovered(place) ==
    [name |-> place.name, placeId |-> place.place_id, pos |-> place.pos,
     rating |-> place.rating, reviewCount |-> place.user_ratings_total,
     googleMapsUrl |-> FALSE, source |-> "api",
     prominenceScore |-> calculateProminenceScore(place.rating, place.user_ratings_total)]

scrapeToDiscovered(r) ==
    [name |-> r.name, placeId |-> 0, pos |-> r.pos,
     rating |-> r.rating, reviewCount |-> r.reviewCount,
     googleMapsUrl |-> r.googleMapsUrl, source |-> "scrape",
     prominenceScore |-> calculateProminenceScore(r.rating, r.reviewCount)]

\* enrichFromScrape(existing, scrape); address and priceLevel are filled in the
\* same way as googleMapsUrl and are left out
enrichFromScrape(existing, scrape) ==
    LET e1 == [existing EXCEPT
                 !.source = "both",
                 !.googleMapsUrl = @ \/ scrape.googleMapsUrl,
                 !.pos = IF @ = 0 /\ scrape.pos # 0 THEN scrape.pos ELSE @]
    IN  IF scrape.reviewCount # 0
           /\ (e1.reviewCount = 0 \/ scrape.reviewCount > e1.reviewCount)
          THEN [e1 EXCEPT !.reviewCount = scrape.reviewCount,
                          !.prominenceScore =
                              calculateProminenceScore(e1.rating, scrape.reviewCount)]
          ELSE e1

\* the two tests of the inner loop of mergeAndDedup
isDuplicate(existing, scrapeItem) ==
    \/ normalizeName(existing.name) = normalizeName(scrapeItem.name)
    \/ /\ areNamesSimilar(existing.name, scrapeItem.name)
       /\ areClose(existing.pos, scrapeItem.pos, CloseThreshold)

\* one pass of the outer loop: enrich the first duplicate, or push
mergeItem(merged, scrapeItem) ==
    LET dups == {i \in 1..Len(merged) : isDuplicate(merged[i], scrapeItem)}
    IN  IF dups = {} THEN Append(merged, scrapeItem)
        ELSE LET i == CHOOSE j \in dups : \A k \in dups : j <= k
             IN  [merged EXCEPT ![i] = enrichFromScrape(@, scrapeItem)]

RECURSIVE mergeFrom(_, _)
mergeFrom(merged, scrapeResults) ==
    IF scrapeResults = <<>> THEN merged
    ELSE mergeFrom(mergeItem(merged, Head(scrapeResults)), Tail(scrapeResults))

mergeAndDedup(apiResults, scrapeResults) == mergeFrom(apiResults, scrapeResults)

\* Array.prototype.sort with (a, b) => score(b) - score(a): descending, stable
RECURSIVE sortDesc(_, _)
sortDesc(list, score) ==
    IF list = <<>> THEN <<>>
    ELSE LET i == CHOOSE j \in 1..Len(list) :
                    /\ \A k \in 1..Len(list) : score[j] >= score[k]
                    /\ \A k \in 1..(j - 1) : score[k] < score[j]
             rest(x) == [k \in 1..(Len(x) - 1) |-> IF k < i THEN x[k] ELSE x[k + 1]]
         IN  <<list[i]>> \o sortDesc(rest(list), rest(score))

TopN == 2

\* what Google Maps holds: the places the official API knows and the listings the
\* crawler sees
Place1 == [place_id |-> 1, name |-> NameProper, pos |-> 1, rating |-> 4,
           user_ratings_total |-> 9]
Place2 == [place_id |-> 2, name |-> NameOther, pos |-> 21, rating |-> 3,
           user_ratings_total |-> 99]
Listing1 == [name |-> NameUpper, pos |-> 2, rating |-> 4, reviewCount |-> 99,
             googleMapsUrl |-> TRUE, isSponsored |-> FALSE]
Listing2 == [name |-> NameLonger, pos |-> 1, rating |-> 3, reviewCount |-> 9,
             googleMapsUrl |-> TRUE, isSponsored |-> FALSE]
Listing3 == [name |-> NameProper, pos |-> 21, rating |-> 0, reviewCount |-> 0,
             googleMapsUrl |-> FALSE, isSponsored |-> FALSE]
Listing4 == [name |-> NameOther, pos |-> 0, rating |-> 4, reviewCount |-> 9,
             googleMapsUrl |-> TRUE, isSponsored |-> FALSE]
Listing5 == [name |-> NameLonger, pos |-> 21, rating |-> 4, reviewCount |-> 0,
             googleMapsUrl |-> TRUE, isSponsored |-> FALSE]
Listing6 == [name |-> NameProper, pos |-> 3, rating |-> 3, reviewCount |-> 9,
             googleMapsUrl |-> TRUE, isSponsored |-> FALSE]
Listings == {Listing1, Listing2, Listing3, Listing4, Listing5, Listing6}

\* scrollAndCollect: the key of its seenNames set
nameKey(name) == trim(toLowerCase(name))

ApiLists == {<<>>, <<Place1>>, <<Place1, Place2>>}
\* what scrollAndCollect can return: no sponsored listing, no two listings with
\* the same key
ScrapeLists ==
    {<<>>} \cup {<<a>> : a \in Listings}
           \cup {l \in {<<a, b>> : a \in Listings, b \in Listings} :
                     nameKey(l[1].name) # nameKey(l[2].name)}

\* searchNearbyRestaurants: the results sorted by rating x log10(count + 1)
searchNearbyRestaurants(places) ==
    sortDesc(places, [k \in 1..Len(places) |->
                         places[k].rating * log10Plus1(places[k].user_ratings_total)])

filterNotSponsored(list) == SelectSeq(list, LAMBDA r : ~r.isSponsored)

mapSeq(list, F(_)) == [k \in 1..Len(list) |-> F(list[k])]

\* env.GOOGLE_API_MONTHLY_LIMIT
MonthlyLimit == 1
MaxMonth == 2
MaxCalls == 2
Discoverers == {"d1", "d2"}

\* a settled branch of Promise.allSettled; success is value.success of the crawl
\* branch and "value is not null" of the API branch
Pending == [status |-> "pending", success |-> FALSE, value |-> <<>>]
Rejected == [status |-> "rejected", success |-> FALSE, value |-> <<>>]
\* the API branch that was not launched: Promise.resolve(null)
FulfilledNull == [status |-> "fulfilled", success |-> FALSE, value |-> <<>>]
Fulfilled(list) == [status |-> "fulfilled", success |-> TRUE, value |-> list]

NoDiscovery ==
    [restaurants |-> <<>>, scrapeCount |-> 0, apiCount |-> 0, apiCallUsed |-> FALSE,
     kind |-> "none"]

NoDiscover ==
    [pc |-> "idle", month |-> 0, canUseApi |-> FALSE, called |-> FALSE,
     failed |-> FALSE, counted |-> -1, detailsFor |-> {},
     scrapeSettled |-> Pending, apiSettled |-> Pending, api |-> "",
     places |-> <<>>, currentCount |-> 0, wrote |-> FALSE, result |-> NoDiscovery]

\* no request has been sent to the official API
NoCalls == [search |-> [m \in 1..MaxMonth |-> 0], details |-> 0]

\* the requests of the current month and the details requests so far
callsNow == calls.search[curMonth] + calls.details

InitDiscovery ==
    /\ quota = [month |-> 0, count |-> 0]
    /\ curMonth = 1
    /\ maps = [crawl |-> <<>>, api |-> <<>>, db |-> TRUE]
    /\ dv = [d \in Discoverers |-> NoDiscover]
    /\ calls = NoCalls

\* the comparison of canMakeCall with the limit included
underLimit_inclusive(currentCount, monthlyLimit) == currentCount <= monthlyLimit

\* canMakeCall: currentCount < this.monthlyLimit
underLimit(currentCount, monthlyLimit) == currentCount < monthlyLimit

Discovering(d) == dv[d].pc # "idle"

\* discover(params, topN) up to its first await: without DATABASE_URL the API is
\* not used, else canMakeCall() starts with getCurrentMonth()
DiscoverStart(d) ==
    /\ dv[d].pc = "idle"
    /\ serial => \A e \in Discoverers : ~Discovering(e)
    /\ callsNow < MaxCalls
    /\ dv' = [dv EXCEPT ![d] =
                IF maps.db THEN [NoDiscover EXCEPT !.pc = "cm_month", !.month = curMonth]
                ELSE [NoDiscover EXCEPT !.pc = "launch"]]
    /\ UNCHANGED <<corevars, keyvars, proxyvars, crawlvars, quota, curMonth, maps, calls>>

\* canMakeCall: findUnique of the month marker; a database error gives false
\* (failed notes that the catch block ran, counted the count that was read)
CanMakeCallMonth(d) ==
    /\ dv[d].pc = "cm_month"
    /\ \/ dv' = [dv EXCEPT ![d].pc = IF quota.month # dv[d].month
                                       THEN "cm_reset_month" ELSE "cm_count"]
       \/ dv' = [dv EXCEPT ![d].pc = "launch", ![d].canUseApi = FALSE,
                           ![d].failed = TRUE]
    /\ UNCHANGED <<corevars, keyvars, proxyvars, crawlvars, quota, curMonth, maps, calls>>

\* canMakeCall -> resetCounter: upsert of the month marker
CanMakeCallResetMonth(d) ==
    /\ dv[d].pc = "cm_reset_month"
    /\ \/ /\ quota' = [quota EXCEPT !.month = dv[d].month]
          /\ dv' = [dv EXCEPT ![d].pc = "cm_reset_count"]
       \/ /\ dv' = [dv EXCEPT ![d].pc = "launch", ![d].canUseApi = FALSE,
                              ![d].failed = TRUE]
          /\ UNCHANGED quota
    /\ UNCHANGED <<corevars, keyvars, proxyvars, crawlvars, curMonth, maps, calls>>

\* canMakeCall -> resetCounter: upsert of the count to 0, then return true
CanMakeCallResetCount(d) ==
    /\ dv[d].pc = "cm_reset_count"
    /\ \/ /\ quota' = [quota EXCEPT !.count = 0]
          /\ dv' = [dv EXCEPT ![d].pc = "launch", ![d].canUseApi = TRUE]
       \/ /\ dv' = [dv EXCEPT ![d].pc = "launch", ![d].canUseApi = FALSE,
                              ![d].failed = TRUE]
          /\ UNCHANGED quota
    /\ UNCHANGED <<corevars, keyvars, proxyvars, crawlvars, curMonth, maps, calls>>

\* canMakeCall: findUnique of the count and the comparison with the limit
CanMakeCallCount(d) ==
    /\ dv[d].pc = "cm_count"
    /\ \/ dv' = [dv EXCEPT ![d].pc = "launch", ![d].counted = quota.count,
                           ![d].canUseApi = underLimit(quota.count, MonthlyLimit)]
       \/ dv' = [dv EXCEPT ![d].pc = "launch", ![d].canUseApi = FALSE,
                           ![d].failed = TRUE]
    /\ UNCHANGED <<corevars, keyvars, proxyvars, crawlvars, quota, curMonth, maps, calls>>

\* Promise.allSettled([scrapeSearchResults(...), canUseApi ? callApi(...) :
\* Promise.resolve(null)]): the crawl starts, and the request to the official API
\* goes out when the API may be used
Launch(d) ==
    /\ dv[d].pc = "launch"
    /\ dv' = [dv EXCEPT ![d].pc = "await",
                        ![d].called = dv[d].canUseApi,
                        ![d].api = IF dv[d].canUseApi THEN "search" ELSE "",
                        ![d].apiSettled = IF dv[d].canUseApi THEN Pending ELSE FulfilledNull]
    /\ calls' = IF dv[d].canUseApi
                  THEN [calls EXCEPT !.search[curMonth] = @ + 1]
                  ELSE calls
    /\ UNCHANGED <<corevars, keyvars, proxyvars, crawlvars, quota, curMonth, maps>>

\* the crawl branch settles: a success result with the listings, a failure
\* result (success: false, restaurants: []), or a rejection
ScrapeSettle(d) ==
    /\ dv[d].pc = "await"
    /\ dv[d].scrapeSettled = Pending
    /\ \E o \in {Fulfilled(maps.crawl),
                 [status |-> "fulfilled", success |-> FALSE, value |-> <<>>],
                 Rejected} :
         dv' = [dv EXCEPT ![d].scrapeSettled = o]
    /\ UNCHANGED <<corevars, keyvars, proxyvars, crawlvars, quota, curMonth, maps, calls>>

\* callApi: searchNearbyRestaurants returns the sorted places, or throws (no API
\* key, a status other than OK / ZERO_RESULTS, a network error); after the places
\* increment() starts with getCurrentMonth()
ApiSearch(d) ==
    /\ dv[d].pc = "await"
    /\ dv[d].api = "search"
    /\ \/ dv' = [dv EXCEPT ![d].api = "inc_month", ![d].month = curMonth,
                           ![d].places = searchNearbyRestaurants(maps.api)]
       \/ dv' = [dv EXCEPT ![d].api = "", ![d].apiSettled = Rejected]
    /\ UNCHANGED <<corevars, keyvars, proxyvars, crawlvars, quota, curMonth, maps, calls>>

\* callApi returns places.map(apiToDiscovered) once increment() has returned;
\* increment() swallows its errors
apiDone(g) ==
    [g EXCEPT !.api = "", !.apiSettled = Fulfilled(mapSeq(g.places, apiToDiscovered))]

\* increment: findUnique of the month marker
IncrementMonth(d) ==
    /\ dv[d].pc = "await"
    /\ dv[d].api = "inc_month"
    /\ \/ dv' = [dv EXCEPT ![d].api = IF quota.month # dv[d].month
                                        THEN "inc_reset_month" ELSE "inc_read"]
       \/ dv' = [dv EXCEPT ![d] = apiDone(@)]
    /\ UNCHANGED <<corevars, keyvars, proxyvars, crawlvars, quota, curMonth, maps, calls>>

\* increment -> resetCounter: upsert of the month marker
IncrementResetMonth(d) ==
    /\ dv[d].pc = "await"
    /\ dv[d].api = "inc_reset_month"
    /\ \/ /\ quota' = [quota EXCEPT !.month = dv[d].month]
          /\ dv' = [dv EXCEPT ![d].api = "inc_reset_count"]
       \/ /\ dv' = [dv EXCEPT ![d] = apiDone(@)]
          /\ UNCHANGED quota
    /\ UNCHANGED <<corevars, keyvars, proxyvars, crawlvars, curMonth, maps, calls>>

\* increment -> resetCounter: upsert of the count to 0
IncrementResetCount(d) ==
    /\ dv[d].pc = "await"
    /\ dv[d].api = "inc_reset_count"
    /\ \/ /\ quota' = [quota EXCEPT !.count = 0]
          /\ dv' = [dv EXCEPT ![d].api = "inc_read"]
       \/ /\ dv' = [dv EXCEPT ![d] = apiDone(@)]
          /\ UNCHANGED quota
    /\ UNCHANGED <<corevars, keyvars, proxyvars, crawlvars, curMonth, maps, calls>>

\* increment: findUnique of the count
IncrementRead(d) ==
    /\ dv[d].pc = "await"
    /\ dv[d].api = "inc_read"
    /\ \/ dv' = [dv EXCEPT ![d].api = "inc_write", ![d].currentCount = quota.count]
       \/ dv' = [dv EXCEPT ![d] = apiDone(@)]
    /\ UNCHANGED <<corevars, keyvars, proxyvars, crawlvars, quota, curMonth, maps, calls>>

\* increment: upsert of the count to currentCount + 1 (wrote notes that the
\* upsert went through)
IncrementWrite(d) ==
    /\ dv[d].pc = "await"
    /\ dv[d].api = "inc_write"
    /\ \/ /\ quota' = [quota EXCEPT !.count = dv[d].currentCount + 1]
          /\ dv' = [dv EXCEPT ![d] = [apiDone(@) EXCEPT !.wrote = TRUE]]
       \/ /\ UNCHANGED quota
          /\ dv' = [dv EXCEPT ![d] = apiDone(@)]
    /\ UNCHANGED <<corevars, keyvars, proxyvars, crawlvars, curMonth, maps, calls>>

\* the lists discover takes from the two settled branches
scrapeRestaurantsOf(scrapeSettled) ==
    IF scrapeSettled.status = "fulfilled" /\ scrapeSettled.success
      THEN mapSeq(filterNotSponsored(scrapeSettled.value), scrapeToDiscovered)
      ELSE <<>>

apiUsed(apiSettled) == apiSettled.status = "fulfilled" /\ apiSettled.success

\* discover after the barrier: merge, sort by prominence, take the top N
discoveryResult(scrapeSettled, apiSettled) ==
    LET scrapeRestaurants == scrapeRestaurantsOf(scrapeSettled)
        apiRestaurants == IF apiUsed(apiSettled) THEN apiSettled.value ELSE <<>>
        merged == mergeAndDedup(apiRestaurants, scrapeRestaurants)
        sorted == slice(sortDesc(merged, [k \in 1..Len(merged) |->
                                             merged[k].prominenceScore]), TopN)
    IN  [restaurants |-> sorted, scrapeCount |-> Len(scrapeRestaurants),
         apiCount |-> Len(apiRestaurants), apiCallUsed |-> apiUsed(apiSettled),
         kind |-> "returned"]

\* a barrier that fails as soon as one branch is rejected (Promise.all)
Join_all(d) ==
    /\ dv[d].pc = "await"
    /\ dv[d].scrapeSettled # Pending /\ dv[d].apiSettled # Pending
    /\ dv' = [dv EXCEPT ![d].pc = "done",
                        ![d].result =
                            IF Rejected \in {dv[d].scrapeSettled, dv[d].apiSettled}
                              THEN [NoDiscovery EXCEPT !.kind = "thrown"]
                              ELSE discoveryResult(dv[d].scrapeSettled, dv[d].apiSettled)]
    /\ UNCHANGED <<corevars, keyvars, proxyvars, crawlvars, quota, curMonth, maps, calls>>

\* both branches have settled: discover returns its result
Join(d) ==
    /\ dv[d].pc = "await"
    /\ dv[d].scrapeSettled # Pending /\ dv[d].apiSettled # Pending
    /\ dv' = [dv EXCEPT ![d].pc = "done",
                        ![d].result = discoveryResult(dv[d].scrapeSettled, dv[d].apiSettled)]
    /\ UNCHANGED <<corevars, keyvars, proxyvars, crawlvars, quota, curMonth, maps, calls>>

\* POST -> processRestaurant for a discovered restaurant that has a place id and
\* for which tryScrapeFirst left needsApiCall true (no stored reviews with an
\* address, the review crawl failed or the database is disabled): the route
\* calls getPlaceDetails(discovered.placeId)
PlaceDetails(d) ==
    /\ dv[d].pc = "done"
    /\ callsNow < MaxCalls
    /\ \E k \in 1..Len(dv[d].result.restaurants) :
         LET discovered == dv[d].result.restaurants[k]
         IN  /\ discovered.placeId # 0
             /\ discovered.placeId \notin dv[d].detailsFor
             /\ dv' = [dv EXCEPT ![d].detailsFor = @ \cup {discovered.placeId}]
    /\ calls' = [calls EXCEPT !.details = @ + 1]
    /\ UNCHANGED <<corevars, keyvars, proxyvars, crawlvars, quota, curMonth, maps>>

\* the caller has the result
DiscoverReturn(d) ==
    /\ dv[d].pc = "done"
    /\ dv' = [dv EXCEPT ![d] = NoDiscover]
    /\ UNCHANGED <<corevars, keyvars, proxyvars, crawlvars, quota, curMonth, maps, calls>>

\* the calendar month changes
MonthTick ==
    /\ curMonth < MaxMonth
    /\ curMonth' = curMonth + 1
    /\ UNCHANGED <<corevars, keyvars, proxyvars, crawlvars, quota, maps, dv, calls>>

\* the discovery services before any call
InitSvc ==

    /\ params = <<>>
    /\ cacheKey = <<>>
    /\ InitProxy
    /\ InitCrawl
    /\ InitDiscovery

Init ==
    /\ now = 1
    /\ cache = [k \in Keys |-> NoEntry]
    /\ nextCacheId = 1
    /\ jobs = [i \in JobIds |-> NoJob]
    /\ nextJobId = 1
    /\ serial = FALSE
    /\ InitProcs
    /\ InitSvc

InProcessing(p) ==
    pc[p] \in {"next_job", "mark_running", "refresh_find", "refresh_mark", "scrape",
               "refresh_store", "cleanup", "complete", "fail_count", "fail_status"}

\* -------------------------------------------------- POST /api/ai/recommend
\* lookup(): findUnique and the classification; the stale branch writes nothing
\* and returns at once
LookupRead(p) ==
    /\ pc[p] = "idle"
    /\ \E k \in Keys :
        LET entry == cache[k]
            st == lookupStatus(entry, now)
        IN  /\ key' = [key EXCEPT ![p] = k]
            /\ snap' = [snap EXCEPT ![p] = entry]
            /\ look' = [look EXCEPT ![p] = IF st \in {"miss", "stale"} THEN st ELSE "none"]
            /\ call' = [call EXCEPT ![p] = IF st = "stale"
                                             THEN [type |-> "refresh_cache", target |-> entry.id]
                                             ELSE NoCall]
            /\ pc' = [pc EXCEPT ![p] =
                        CASE st = "miss" -> "discover"
                          [] st = "expired" -> "lookup_markstale"
                          [] st = "stale" -> "schedule"
                          [] OTHER -> "lookup_recordhit"]
    /\ UNCHANGED <<now, cache, nextCacheId, jobs, nextJobId, serial,
                   out, exist, stored, sched, found, resp, batch, job, upd>>
    /\ lookedAt' = IF lookupStatus(cache[key'[p]], now) = "stale"
                    THEN [lookedAt EXCEPT ![cache[key'[p]].id] = now]
                    ELSE lookedAt
    /\ UNCHANGED svcvars

\* an expired branch that serves the entry like a stale one and schedules its refresh
LookupMarkStale_usable(p) ==
    /\ pc[p] = "lookup_markstale"
    /\ cache' = updateStatus(cache, snap[p].id, "stale")
    /\ look' = [look EXCEPT ![p] = "expired"]
    /\ call' = [call EXCEPT ![p] = [type |-> "refresh_cache", target |-> snap[p].id]]
    /\ pc' = [pc EXCEPT ![p] = "schedule"]
    /\ UNCHANGED <<now, nextCacheId, jobs, nextJobId, serial,
                   key, snap, out, exist, stored, sched, found, resp, batch, job, upd>>
    /\ lookedAt' = IF snap[p].id # 0 THEN [lookedAt EXCEPT ![snap[p].id] = now] ELSE lookedAt
    /\ UNCHANGED svcvars

\* lookup(), expired branch: mark stale in storage, report expired; the route
\* returns cached results for hit and stale only and goes on to discovery
LookupMarkStale(p) ==
    /\ pc[p] = "lookup_markstale"
    /\ cache' = updateStatus(cache, snap[p].id, "stale")
    /\ look' = [look EXCEPT ![p] = "expired"]
    /\ pc' = [pc EXCEPT ![p] = "discover"]
    /\ UNCHANGED <<now, nextCacheId, jobs, nextJobId, serial,
                   key, snap, out, exist, stored, call, sched, found, resp, batch, job, upd>>
    /\ lookedAt' = IF snap[p].id # 0 THEN [lookedAt EXCEPT ![snap[p].id] = now] ELSE lookedAt
    /\ UNCHANGED svcvars

\* the response built from a cached entry
CachedResponse(entry) ==
    [kind |-> "cached", results |-> entry.results, message |-> entry.message]

\* a hit recorded as a read-modify-write of the row lookup() read
LookupRecordHit_readModifyWrite(p) ==
    /\ pc[p] = "lookup_recordhit"
    /\ \A k \in Keys : cache[k].hitCount < MaxHits
    /\ cache' = [k \in Keys |-> IF cache[k].id = snap[p].id
                                   THEN [cache[k] EXCEPT !.hitCount = snap[p].hitCount + 1,
                                                         !.lastAccessedAt = now]
                                   ELSE cache[k]]
    /\ look' = [look EXCEPT ![p] = "hit"]
    /\ resp' = [resp EXCEPT ![p] = CachedResponse(snap[p])]
    /\ pc' = [pc EXCEPT ![p] = "done"]
    /\ UNCHANGED <<now, nextCacheId, jobs, nextJobId, serial,
                   key, snap, out, exist, stored, call, sched, found, batch, job, upd>>
    /\ lookedAt' = IF snap[p].id # 0 THEN [lookedAt EXCEPT ![snap[p].id] = now] ELSE lookedAt
    /\ UNCHANGED svcvars

\* lookup(), fresh branch: recordHit, report hit; the route returns the cached list
LookupRecordHit(p) ==
    /\ pc[p] = "lookup_recordhit"
    /\ \A k \in Keys : cache[k].hitCount < MaxHits
    /\ cache' = recordHit(cache, snap[p].id, now)
    /\ look' = [look EXCEPT ![p] = "hit"]
    /\ resp' = [resp EXCEPT ![p] = CachedResponse(snap[p])]
    /\ pc' = [pc EXCEPT ![p] = "done"]
    /\ UNCHANGED <<now, nextCacheId, jobs, nextJobId, serial,
                   key, snap, out, exist, stored, call, sched, found, batch, job, upd>>
    /\ lookedAt' = IF snap[p].id # 0 THEN [lookedAt EXCEPT ![snap[p].id] = now] ELSE lookedAt
    /\ UNCHANGED svcvars

\* what the invocation answers once its schedule call has returned: the request
\* returns the cached list, the cron endpoint and the direct caller a count
ScheduleResponse(p) ==
    IF look[p] = "stale" THEN CachedResponse(snap[p])
    ELSE [kind |-> "scheduled", results |-> <<>>, message |-> ""]

\* scheduleRefresh / scheduleScrape: findFirst; an existing job is returned as it is
ScheduleFind(p) ==
    /\ pc[p] = "schedule"
    /\ serial => \A q \in Procs : pc[q] # "sched_create"
    /\ LET ex == findExisting(jobs, call[p].type, call[p].target)
       IN  IF ex # {}
             THEN \E e \in ex :
                    /\ found' = [found EXCEPT ![p] = e]
                    /\ sched' = [sched EXCEPT ![p] = e]
                    /\ resp' = [resp EXCEPT ![p] = ScheduleResponse(p)]
                    /\ pc' = [pc EXCEPT ![p] = "done"]
             ELSE /\ found' = [found EXCEPT ![p] = 0]
                  /\ pc' = [pc EXCEPT ![p] = "sched_create"]
                  /\ UNCHANGED <<sched, resp>>
    /\ UNCHANGED <<now, cache, nextCacheId, jobs, nextJobId, serial,
                   key, snap, look, out, exist, call, stored, batch, job, upd>>
    /\ UNCHANGED <<lookedAt, svcvars>>

\* the response of the route's outer catch block (status 500)
ErrorResponse == [kind |-> "error", results |-> <<>>, message |-> ""]

\* scheduleRefresh on a stale hit: findFirst, which is outside any try, throws;
\* the exception leaves scheduleRefresh and ends the request in the route's
\* outer catch
ScheduleFindThrows(p) ==
    /\ pc[p] = "schedule"
    /\ look[p] = "stale"
    /\ sched' = [sched EXCEPT ![p] = 0]
    /\ resp' = [resp EXCEPT ![p] = ErrorResponse]
    /\ pc' = [pc EXCEPT ![p] = "done"]
    /\ UNCHANGED <<now, cache, nextCacheId, jobs, nextJobId, serial,
                   key, snap, look, out, exist, stored, call, found, batch, job, upd>>
    /\ UNCHANGED <<lookedAt, svcvars>>

\* scheduleRefresh / scheduleScrape: createJob, which returns null when the
\* insert fails
ScheduleCreate(p) ==
    /\ pc[p] = "sched_create"
    /\ \/ /\ nextJobId <= MaxJobs
          /\ jobs' = [jobs EXCEPT ![nextJobId] = createJob(call[p].type, call[p].target, 1, now)]
          /\ nextJobId' = nextJobId + 1
          /\ sched' = [sched EXCEPT ![p] = nextJobId]
       \/ /\ sched' = [sched EXCEPT ![p] = 0]
          /\ UNCHANGED <<jobs, nextJobId>>
    /\ resp' = [resp EXCEPT ![p] = ScheduleResponse(p)]
    /\ pc' = [pc EXCEPT ![p] = "done"]
    /\ UNCHANGED <<now, cache, nextCacheId, serial,
                   key, snap, look, out, exist, stored, call, found, batch, job, upd>>
    /\ UNCHANGED <<lookedAt, svcvars>>

\* discover() and the analysis: no restaurant ends the request with an empty
\* list and stores nothing
Discover(p) ==
    /\ pc[p] = "discover"
    /\ \/ \E o \in Outcomes :
            /\ out' = [out EXCEPT ![p] = o]
            /\ pc' = [pc EXCEPT ![p] = "store"]
            /\ resp' = resp
       \/ /\ resp' = [resp EXCEPT ![p] = [kind |-> "empty", results |-> <<>>, message |-> ""]]
          /\ pc' = [pc EXCEPT ![p] = "done"]
          /\ out' = out
    /\ UNCHANGED <<now, cache, nextCacheId, jobs, nextJobId, serial,
                   key, snap, look, exist, stored, call, sched, found, batch, job, upd>>
    /\ UNCHANGED <<lookedAt, svcvars>>

\* store(), first await: findUnique by cacheKey
StoreFind(p) ==
    /\ pc[p] = "store"
    /\ exist' = [exist EXCEPT ![p] = cache[key[p]].id # 0]
    /\ pc' = [pc EXCEPT ![p] = "store_write"]
    /\ UNCHANGED <<now, cache, nextCacheId, jobs, nextJobId, serial,
                   key, snap, look, out, stored, call, sched, found, resp, batch, job, upd>>
    /\ UNCHANGED <<lookedAt, svcvars>>

\* store(), second await: update or create; an update of a row that is gone and a
\* create that hits the unique cacheKey throw, and store() returns null
StoreWrite(p) ==
    /\ pc[p] = "store_write"
    /\ (~exist[p] /\ cache[key[p]].id = 0) => nextCacheId <= MaxCacheIds
    /\ LET k == key[p]
           present == cache[k].id # 0
       IN  IF exist[p] /\ present
             THEN /\ cache' = [cache EXCEPT ![k] = storeUpdate(@, out[p], now)]
                  /\ stored' = [stored EXCEPT ![p] = "ok"]
                  /\ UNCHANGED nextCacheId
             ELSE IF ~exist[p] /\ ~present
             THEN /\ cache' = [cache EXCEPT ![k] = storeCreate(nextCacheId, out[p], now)]
                  /\ nextCacheId' = nextCacheId + 1
                  /\ stored' = [stored EXCEPT ![p] = "ok"]
             ELSE /\ stored' = [stored EXCEPT ![p] = "null"]
                  /\ UNCHANGED <<cache, nextCacheId>>
    /\ resp' = [resp EXCEPT ![p] =
                    [kind |-> "fresh", results |-> out[p].results, message |-> out[p].message]]
    /\ pc' = [pc EXCEPT ![p] = "done"]
    /\ UNCHANGED <<now, jobs, nextJobId, serial,
                   key, snap, look, out, exist, call, sched, found, batch, job, upd>>
    /\ UNCHANGED <<lookedAt, svcvars>>

\* store(): findUnique, update or create throws (the database is unreachable);
\* store() catches and returns null, the route goes on to its response
StoreThrows(p) ==
    /\ pc[p] \in {"store", "store_write"}
    /\ stored' = [stored EXCEPT ![p] = "null"]
    /\ resp' = [resp EXCEPT ![p] =
                    [kind |-> "fresh", results |-> out[p].results, message |-> out[p].message]]
    /\ pc' = [pc EXCEPT ![p] = "done"]
    /\ UNCHANGED <<now, cache, nextCacheId, jobs, nextJobId, serial,
                   key, snap, look, out, exist, call, sched, found, batch, job, upd>>
    /\ UNCHANGED <<lookedAt, svcvars>>

\* --------------------------------------------------- POST /api/jobs/process
\* action 'process': processAllPending(limit) starts with getPendingJobs
GetPendingJobs(p) ==
    /\ pc[p] = "idle"
    /\ serial => \A q \in Procs : ~InProcessing(q)
    /\ batch' = [batch EXCEPT ![p] = getPendingJobs(jobs, now, JobLimit)]
    /\ pc' = [pc EXCEPT ![p] = "next_job"]
    /\ UNCHANGED <<now, cache, nextCacheId, jobs, nextJobId, serial,
                   key, snap, look, out, exist, stored, call, sched, found, resp, job, upd>>
    /\ UNCHANGED <<lookedAt, svcvars>>

\* processJob(job.id): findUnique; a job that is gone or not pending is skipped
ProcessJobFind(p) ==
    /\ pc[p] = "next_job"
    /\ IF batch[p] = <<>>
         THEN /\ pc' = [pc EXCEPT ![p] = "done"]
              /\ UNCHANGED <<batch, job>>
         ELSE LET id == Head(batch[p]) IN
              /\ batch' = [batch EXCEPT ![p] = Tail(@)]
              /\ IF jobs[id].status = "pending"
                   THEN /\ job' = [job EXCEPT ![p] = id]
                        /\ pc' = [pc EXCEPT ![p] = "mark_running"]
                   ELSE /\ job' = [job EXCEPT ![p] = 0]
                        /\ pc' = pc
    /\ UNCHANGED <<now, cache, nextCacheId, jobs, nextJobId, serial,
                   key, snap, look, out, exist, stored, call, sched, found, resp, upd>>
    /\ UNCHANGED <<lookedAt, svcvars>>

\* the handler processJob dispatches to, by payload.type
HandlerPc(type) ==
    IF type = "refresh_cache" THEN "refresh_find"
    ELSE IF type = "cleanup_expired" THEN "cleanup"
    ELSE "scrape"

\* processJob: updateStatus(jobId, 'running'); the update of a deleted row throws
\* outside the try block and ends the invocation
MarkRunning(p) ==
    /\ pc[p] = "mark_running"
    /\ IF jobs[job[p]].status = "none"
         THEN /\ pc' = [pc EXCEPT ![p] = "done"]
              /\ resp' = [resp EXCEPT ![p] = [kind |-> "error", results |-> <<>>, message |-> ""]]
              /\ jobs' = jobs
         ELSE /\ jobs' = [jobs EXCEPT ![job[p]].status = "running"]
              /\ pc' = [pc EXCEPT ![p] = HandlerPc(jobs[job[p]].type)]
              /\ resp' = resp
    /\ UNCHANGED <<now, cache, nextCacheId, nextJobId, serial,
                   key, snap, look, out, exist, stored, call, sched, found, batch, job, upd>>
    /\ UNCHANGED <<lookedAt, svcvars>>

\* processRefreshCache: findUnique by cacheId; a missing entry throws
RefreshFind(p) ==
    /\ pc[p] = "refresh_find"
    /\ LET id == jobs[job[p]].target
           hit == {k \in Keys : cache[k].id = id /\ id # 0}
       IN  IF hit = {}
             THEN /\ pc' = [pc EXCEPT ![p] = "fail_count"]
                  /\ snap' = snap
             ELSE /\ snap' = [snap EXCEPT ![p] = cache[CHOOSE k \in hit : TRUE]]
                  /\ pc' = [pc EXCEPT ![p] = "refresh_mark"]
    /\ UNCHANGED <<now, cache, nextCacheId, jobs, nextJobId, serial,
                   key, look, out, exist, stored, call, sched, found, resp, batch, job, upd>>
    /\ UNCHANGED <<lookedAt, svcvars>>

\* processRefreshCache: cacheService.updateStatus(cacheId, 'refreshing')
RefreshMark(p) ==
    /\ pc[p] = "refresh_mark"
    /\ cache' = updateStatus(cache, snap[p].id, "refreshing")
    /\ pc' = [pc EXCEPT ![p] = "scrape"]
    /\ UNCHANGED <<now, nextCacheId, jobs, nextJobId, serial,
                   key, snap, look, out, exist, stored, call, sched, found, resp, batch, job, upd>>
    /\ UNCHANGED <<lookedAt, svcvars>>

\* the scrapeAndSave calls of processRefreshCache and processScrapeRestaurant:
\* they return, or a repository write throws; out notes what the re-crawl of a
\* refresh found at the restaurants (its return value is not used)
Scrape(p) ==
    /\ pc[p] = "scrape"
    /\ \/ /\ pc' = [pc EXCEPT ![p] = IF jobs[job[p]].type = "refresh_cache"
                                       THEN "refresh_store" ELSE "complete"]
          /\ IF jobs[job[p]].type = "refresh_cache"
               THEN \E o \in Outcomes : out' = [out EXCEPT ![p] = o]
               ELSE out' = out
       \/ /\ pc' = [pc EXCEPT ![p] = "fail_count"]
          /\ out' = out
    /\ UNCHANGED <<now, cache, nextCacheId, jobs, nextJobId, serial,
                   key, snap, look, exist, stored, call, sched, found, resp, batch, job, upd>>
    /\ UNCHANGED <<lookedAt, svcvars>>

\* the row processRefreshCache writes last: fresh, expiring in 30 days
refreshUpdate(entry, t) ==
    [entry EXCEPT !.status = "fresh", !.expiresAt = t + RefreshTtlMs]

\* processRefreshCache: prisma.searchCache.update; it throws when the row is gone
RefreshStore(p) ==
    /\ pc[p] = "refresh_store"
    /\ LET hit == {k \in Keys : cache[k].id = snap[p].id}
       IN  IF hit = {}
             THEN /\ pc' = [pc EXCEPT ![p] = "fail_count"]
                  /\ cache' = cache
             ELSE /\ cache' = [k \in Keys |-> IF k \in hit THEN refreshUpdate(cache[k], now)
                                                ELSE cache[k]]
                  /\ pc' = [pc EXCEPT ![p] = "complete"]
    /\ UNCHANGED <<now, nextCacheId, jobs, nextJobId, serial,
                   key, snap, look, out, exist, stored, call, sched, found, resp, batch, job, upd>>
    /\ UNCHANGED <<lookedAt, svcvars>>

\* processJob: mark completed; the update of a deleted row throws, and so does
\* the update of the catch block, which ends the invocation
Complete(p) ==
    /\ pc[p] = "complete"
    /\ IF jobs[job[p]].status = "none"
         THEN /\ pc' = [pc EXCEPT ![p] = "done"]
              /\ resp' = [resp EXCEPT ![p] = [kind |-> "error", results |-> <<>>, message |-> ""]]
              /\ jobs' = jobs
         ELSE /\ jobs' = [jobs EXCEPT ![job[p]].status = "completed",
                                      ![job[p]].completedAt = now]
              /\ pc' = [pc EXCEPT ![p] = "next_job"]
              /\ resp' = resp
    /\ UNCHANGED <<now, cache, nextCacheId, nextJobId, serial,
                   key, snap, look, out, exist, stored, call, sched, found, batch, job, upd>>
    /\ UNCHANGED <<lookedAt, svcvars>>

\* processJob, catch block: attempts: {increment: 1} and lastError
FailCount(p) ==
    /\ pc[p] = "fail_count"
    /\ jobs[job[p]].attempts < MaxFailures
    /\ IF jobs[job[p]].status = "none"
         THEN /\ pc' = [pc EXCEPT ![p] = "done"]
              /\ resp' = [resp EXCEPT ![p] = [kind |-> "error", results |-> <<>>, message |-> ""]]
              /\ UNCHANGED <<jobs, upd>>
         ELSE /\ jobs' = [jobs EXCEPT ![job[p]].attempts = @ + 1,
                                      ![job[p]].lastError = "error"]
              /\ upd' = [upd EXCEPT ![p] = jobs[job[p]].attempts + 1]
              /\ pc' = [pc EXCEPT ![p] = "fail_status"]
              /\ resp' = resp
    /\ UNCHANGED <<now, cache, nextCacheId, nextJobId, serial,
                   key, snap, look, out, exist, stored, call, sched, found, batch, job>>
    /\ UNCHANGED <<lookedAt, svcvars>>

\* processJob, catch block: failed when the attempts are used up, else pending
FailStatus(p) ==
    /\ pc[p] = "fail_status"
    /\ IF jobs[job[p]].status = "none"
         THEN /\ pc' = [pc EXCEPT ![p] = "done"]
              /\ resp' = [resp EXCEPT ![p] = [kind |-> "error", results |-> <<>>, message |-> ""]]
              /\ jobs' = jobs
         ELSE /\ jobs' = [jobs EXCEPT ![job[p]].status = statusAfterFailure(upd[p], MaxAttempts)]
              /\ pc' = [pc EXCEPT ![p] = "next_job"]
              /\ resp' = resp
    /\ UNCHANGED <<now, cache, nextCacheId, nextJobId, serial,
                   key, snap, look, out, exist, stored, call, sched, found, batch, job, upd>>
    /\ UNCHANGED <<lookedAt, svcvars>>

\* action 'schedule-stale-refresh': getStaleEntries, then scheduleRefresh(entry.id, 1)
\* for each entry (the one key of the model gives at most one)
CronStaleRefresh(p) ==
    /\ pc[p] = "idle"
    /\ LET stale == {k \in Keys : cache[k].status = "stale"}
       IN  IF stale = {}
             THEN /\ pc' = [pc EXCEPT ![p] = "done"]
                  /\ resp' = [resp EXCEPT ![p] =
                                 [kind |-> "scheduled", results |-> <<>>, message |-> ""]]
                  /\ UNCHANGED <<snap, call>>
             ELSE \E k \in stale :
                  /\ snap' = [snap EXCEPT ![p] = cache[k]]
                  /\ call' = [call EXCEPT ![p] =
                                 [type |-> "refresh_cache", target |-> cache[k].id]]
                  /\ pc' = [pc EXCEPT ![p] = "schedule"]
                  /\ resp' = resp
    /\ UNCHANGED <<now, cache, nextCacheId, jobs, nextJobId, serial,
                   key, look, out, exist, stored, sched, found, batch, job, upd>>
    /\ UNCHANGED <<lookedAt, svcvars>>

\* a caller of scheduleScrape(placeId, googleMapsUrl, foodKeyword)
ScheduleScrape(p) ==
    /\ pc[p] = "idle"
    /\ \E pl \in PlaceIds :
         call' = [call EXCEPT ![p] = [type |-> "scrape_restaurant", target |-> pl]]
    /\ pc' = [pc EXCEPT ![p] = "schedule"]
    /\ UNCHANGED <<now, cache, nextCacheId, jobs, nextJobId, serial,
                   key, snap, look, out, exist, stored, sched, found, resp, batch, job, upd>>
    /\ UNCHANGED <<lookedAt, svcvars>>

\* action 'cleanup': cacheService.cleanupExpired() and cleanupOldJobs(7)
CronCleanup(p) ==
    /\ pc[p] = "idle"
    /\ cache' = cleanupExpired(cache, now)
    /\ jobs' = cleanupOldJobs(jobs, now, JobRetentionMs)
    /\ cache' # cache \/ jobs' # jobs
    /\ UNCHANGED <<now, nextCacheId, nextJobId, serial, procvars>>
    /\ UNCHANGED <<lookedAt, svcvars>>

\* processCleanup, the handler of a cleanup_expired job: cacheService.cleanupExpired(),
\* which swallows its errors
ProcessCleanup(p) ==
    /\ pc[p] = "cleanup"
    /\ cache' = cleanupExpired(cache, now)
    /\ pc' = [pc EXCEPT ![p] = "complete"]
    /\ UNCHANGED <<now, nextCacheId, jobs, nextJobId, serial,
                   key, snap, look, out, exist, stored, call, sched, found, resp, batch, job, upd>>
    /\ UNCHANGED <<lookedAt, svcvars>>

\* a caller of createJob('cleanup_expired', {}): priority 0, scheduled now; a
\* failed insert returns null
CreateCleanupJob(p) ==
    /\ pc[p] = "idle"
    /\ nextJobId <= MaxJobs
    /\ jobs' = [jobs EXCEPT ![nextJobId] = createJob("cleanup_expired", 0, 0, now)]
    /\ nextJobId' = nextJobId + 1
    /\ UNCHANGED <<now, cache, nextCacheId, serial, procvars>>
    /\ UNCHANGED <<lookedAt, svcvars>>

\* the invocation has answered; the process takes the next one
Finish(p) ==
    /\ pc[p] = "done"
    /\ pc' = [pc EXCEPT ![p] = "idle"]
    /\ snap' = [snap EXCEPT ![p] = NoEntry]
    /\ look' = [look EXCEPT ![p] = "none"]
    /\ out' = [out EXCEPT ![p] = NoOutcome]
    /\ exist' = [exist EXCEPT ![p] = FALSE]
    /\ stored' = [stored EXCEPT ![p] = "none"]
    /\ call' = [call EXCEPT ![p] = NoCall]
    /\ sched' = [sched EXCEPT ![p] = -1]
    /\ found' = [found EXCEPT ![p] = 0]
    /\ resp' = [resp EXCEPT ![p] = NoResp]
    /\ batch' = [batch EXCEPT ![p] = <<>>]
    /\ job' = [job EXCEPT ![p] = 0]
    /\ upd' = [upd EXCEPT ![p] = 0]
    /\ UNCHANGED <<now, cache, nextCacheId, jobs, nextJobId, serial, key>>
    /\ UNCHANGED <<lookedAt, svcvars>>

\* invalidateByQuery(foodQuery): updateMany of the entries of the query to stale
\* (the entries of the model are all of one query)
InvalidateByQuery ==
    /\ \E k \in Keys : cache[k].id # 0 /\ cache[k].status # "stale"
    /\ cache' = [k \in Keys |-> IF cache[k].id # 0
                                   THEN [cache[k] EXCEPT !.status = "stale"]
                                   ELSE cache[k]]
    /\ UNCHANGED <<now, nextCacheId, jobs, nextJobId, serial, procvars, lookedAt, svcvars>>

\* the clock advances
Tick ==
    /\ now < MaxTime
    /\ now' = now + 1
    /\ UNCHANGED <<cache, nextCacheId, jobs, nextJobId, serial, procvars, lookedAt, svcvars>>

\* the whole system: requests, the cron endpoint and the clock
Next ==
    \/ Tick
    \/ \E p \in Procs :
        \/ LookupRead(p) \/ LookupMarkStale(p) \/ LookupRecordHit(p)
        \/ ScheduleFind(p) \/ ScheduleFindThrows(p) \/ ScheduleCreate(p)
        \/ Discover(p) \/ StoreFind(p) \/ StoreWrite(p) \/ StoreThrows(p)
        \/ GetPendingJobs(p) \/ ProcessJobFind(p) \/ MarkRunning(p)
        \/ RefreshFind(p) \/ RefreshMark(p) \/ Scrape(p) \/ RefreshStore(p)
        \/ Complete(p) \/ FailCount(p) \/ FailStatus(p)
        \/ CronStaleRefresh(p) \/ ScheduleScrape(p) \/ CronCleanup(p)
        \/ CreateCleanupJob(p) \/ ProcessCleanup(p)
        \/ Finish(p)

Spec == Init /\ [][Next]_vars

\* the request path and the cache: two concurrent invocations, the cron cleanup and
\* the clock; jobs are enqueued and stay pending
InitCache ==
    /\ now = 1
    /\ cache = [k \in Keys |-> NoEntry]
    /\ nextCacheId = 1
    /\ jobs = [i \in JobIds |-> NoJob]
    /\ nextJobId = 1
    /\ serial = FALSE
    /\ InitProcs
    /\ InitSvc

NextCache ==
    \/ Tick
    \/ \E p \in Procs :
        \/ LookupRead(p) \/ LookupMarkStale(p) \/ LookupRecordHit(p)
        \/ ScheduleFind(p) \/ ScheduleFindThrows(p) \/ ScheduleCreate(p)
        \/ Discover(p) \/ StoreFind(p) \/ StoreWrite(p) \/ StoreThrows(p)
        \/ CronCleanup(p)
        \/ Finish(p)

SpecCache == InitCache /\ [][NextCache]_vars

\* the same, from an entry that store() created at time 1 and a caller of
\* updateStatus(id, 'failed') has marked failed
FailedEntry ==
    [storeCreate(1, [results |-> <<1>>, message |-> "m1", sourceIds |-> {1}], 1)
        EXCEPT !.status = "failed"]

InitFailed ==
    /\ now = 1
    /\ cache = [k \in Keys |-> FailedEntry]
    /\ nextCacheId = 2
    /\ jobs = [i \in JobIds |-> NoJob]
    /\ nextJobId = 1
    /\ serial = FALSE
    /\ InitProcs
    /\ InitSvc

SpecFailed == InitFailed /\ [][NextCache]_vars

\* a cache entry as store() left it at time 1, after it has expired and a lookup
\* has marked it stale
ExpiredEntry ==
    [storeCreate(1, [results |-> <<1>>, message |-> "m1", sourceIds |-> {1}], 1)
        EXCEPT !.status = "stale"]

\* the job scheduler at a fixed time: the cron endpoint's scheduleRefresh calls, callers
\* of scheduleScrape and processing passes, two invocations at a time
InitJobs ==
    /\ now = getExpiryDate(1) + 1
    /\ cache = [k \in Keys |-> ExpiredEntry]
    /\ nextCacheId = 2
    /\ jobs = [i \in JobIds |-> NoJob]
    /\ nextJobId = 1
    /\ serial = FALSE
    /\ InitProcs
    /\ InitSvc

NextJobs ==
    \E p \in Procs :
        \/ ScheduleFind(p) \/ ScheduleCreate(p)
        \/ CronStaleRefresh(p) \/ ScheduleScrape(p)
        \/ GetPendingJobs(p) \/ ProcessJobFind(p) \/ MarkRunning(p)
        \/ RefreshFind(p) \/ RefreshMark(p) \/ Scrape(p) \/ RefreshStore(p)
        \/ Complete(p) \/ FailCount(p) \/ FailStatus(p)
        \/ Finish(p)

SpecJobs == InitJobs /\ [][NextJobs]_vars

\* the job table over time: callers of scheduleScrape and of createJob for a
\* cleanup job, processing passes that do not overlap, the cron cleanup and the
\* clock
InitCleanup ==
    /\ now = 1
    /\ cache = [k \in Keys |-> ExpiredEntry]
    /\ nextCacheId = 2
    /\ jobs = [i \in JobIds |-> NoJob]
    /\ nextJobId = 1
    /\ serial = TRUE
    /\ InitProcs
    /\ InitSvc

NextCleanup ==
    \/ Tick
    \/ \E p \in Procs :
        \/ ScheduleScrape(p) \/ ScheduleFind(p) \/ ScheduleCreate(p)
        \/ CreateCleanupJob(p)
        \/ GetPendingJobs(p) \/ ProcessJobFind(p) \/ MarkRunning(p)
        \/ Scrape(p) \/ ProcessCleanup(p)
        \/ Complete(p) \/ FailCount(p) \/ FailStatus(p)
        \/ CronCleanup(p)
        \/ Finish(p)

SpecCleanup == InitCleanup /\ [][NextCleanup]_vars

\* a pending refresh job for the expired entry, processed next to the requests
\* and the invalidation of the same entry, at a fixed time; processing passes
\* do not overlap
InitRefresh ==
    /\ now = getExpiryDate(1) + 1
    /\ cache = [k \in Keys |-> ExpiredEntry]
    /\ nextCacheId = 2
    /\ jobs = [i \in JobIds |-> IF i = 1 THEN createJob("refresh_cache", 1, 1, now) ELSE NoJob]
    /\ nextJobId = 2
    /\ serial = TRUE
    /\ InitProcs
    /\ InitSvc

NextRefresh ==
    \/ InvalidateByQuery
    \/ \E p \in Procs :
        \/ LookupRead(p) \/ LookupMarkStale(p) \/ LookupRecordHit(p)
        \/ Discover(p) \/ StoreFind(p) \/ StoreWrite(p) \/ StoreThrows(p)
        \/ GetPendingJobs(p) \/ ProcessJobFind(p) \/ MarkRunning(p)
        \/ RefreshFind(p) \/ RefreshMark(p) \/ Scrape(p) \/ RefreshStore(p)
        \/ Complete(p) \/ FailCount(p) \/ FailStatus(p)
        \/ Finish(p)

SpecRefresh == InitRefresh /\ [][NextRefresh]_vars

\* the steps of a processing pass after getPendingJobs
ProcessingStep(p) ==
    \/ ProcessJobFind(p) \/ MarkRunning(p)
    \/ RefreshFind(p) \/ RefreshMark(p) \/ Scrape(p) \/ RefreshStore(p)
    \/ Complete(p) \/ FailCount(p) \/ FailStatus(p)
    \/ Finish(p)

\* the scheduler keeps processing: the cron endpoint is called again and again
\* and a pass that has started goes on; the re-crawl and the last write of a
\* refresh succeed again and again when they are tried again and again
FairProcessing ==
    \A p \in Procs :
        /\ SF_vars(GetPendingJobs(p))
        /\ WF_vars(ProcessingStep(p))
        /\ SF_vars(Scrape(p) /\ pc'[p] = "refresh_store")
        /\ SF_vars(RefreshStore(p) /\ pc'[p] = "complete")

\* the pending refresh job of the entry and the processing passes alone, which
\* may overlap or not, next to invalidations of the entry
InitRefreshFair ==
    /\ now = getExpiryDate(1) + 1
    /\ cache = [k \in Keys |-> ExpiredEntry]
    /\ nextCacheId = 2
    /\ jobs = [i \in JobIds |-> IF i = 1 THEN createJob("refresh_cache", 1, 1, now) ELSE NoJob]
    /\ nextJobId = 2
    /\ serial \in BOOLEAN
    /\ InitProcs
    /\ InitSvc

NextRefreshFair ==
    \/ InvalidateByQuery
    \/ \E p \in Procs :
        \/ GetPendingJobs(p) \/ ProcessJobFind(p) \/ MarkRunning(p)
        \/ RefreshFind(p) \/ RefreshMark(p) \/ Scrape(p) \/ RefreshStore(p)
        \/ Complete(p) \/ FailCount(p) \/ FailStatus(p)
        \/ Finish(p)

SpecRefreshFair == InitRefreshFair /\ [][NextRefreshFair]_vars /\ FairProcessing

\* the same scheduler when the calls of scheduleRefresh / scheduleScrape come one
\* after the other and the processing passes do not overlap
InitSeq ==
    /\ now = getExpiryDate(1) + 1
    /\ cache = [k \in Keys |-> ExpiredEntry]
    /\ nextCacheId = 2
    /\ jobs = [i \in JobIds |-> NoJob]
    /\ nextJobId = 1
    /\ serial = TRUE
    /\ InitProcs
    /\ InitSvc

SpecSeq == InitSeq /\ [][NextJobs]_vars

\* --------------------------------------------------------- generateCacheKey
\* Strings are sequences of characters.  The alphabet has an upper-case letter,
\* its lower-case form, the blank and the separator generateCacheKey uses.
Chars == {"L", "l", " ", ":"}
MaxQueryLen == 2
Queries == UNION {[1..n -> Chars] : n \in 0..MaxQueryLen}

\* coordinates in units of 0.00001 degree, on both sides of zero and of a
\* rounding boundary
Latitudes == {-6, -1, 0, 4}
Longitudes == {-1, 1}
Radii == {1, 3}

\* CacheKey, the parameter set
ParamSets ==
    [foodQuery : Queries, latitude : Latitudes, longitude : Longitudes, radiusKm : Radii]

\* Number.prototype.toFixed(4) of x * 0.00001: "-" when x < 0, then the digits
\* of n, the integer with n / 10^4 nearest to |x| (the larger n on a tie)
toFixed4(x) ==
    LET a == IF x < 0 THEN -x ELSE x
        n == (a + 5) \div 10
    IN  (IF x < 0 THEN <<"-">> ELSE <<>>) \o <<ToString(n)>>

generateCacheKey(pr) ==
    LET q == trim(toLowerCase(pr.foodQuery))
        lat == toFixed4(pr.latitude)
        lng == toFixed4(pr.longitude)
        r == <<ToString(pr.radiusKm)>>
    IN  q \o <<":">> \o lat \o <<":">> \o lng \o <<":">> \o r

\* two callers hold their parameter sets; each calls generateCacheKey once
InitKey ==
    /\ now = 1
    /\ cache = [k \in Keys |-> NoEntry]
    /\ nextCacheId = 1
    /\ jobs = [i \in JobIds |-> NoJob]
    /\ nextJobId = 1
    /\ serial = FALSE
    /\ InitProcs
    /\ params \in [1..2 -> ParamSets]
    /\ cacheKey = [i \in 1..2 |-> <<>>]
    /\ InitProxy
    /\ InitCrawl
    /\ InitDiscovery

GenerateCacheKey(i) ==
    /\ cacheKey[i] = <<>>
    /\ cacheKey' = [cacheKey EXCEPT ![i] = generateCacheKey(params[i])]
    /\ UNCHANGED <<corevars, params, proxyvars, crawlvars, discvars>>

NextKey == \E i \in 1..2 : GenerateCacheKey(i)

SpecKey == InitKey /\ [][NextKey]_vars

\* the proxy service under getProxy calls that may overlap
InitProxyPar ==
    /\ now = 1
    /\ cache = [k \in Keys |-> NoEntry]
    /\ nextCacheId = 1
    /\ jobs = [i \in JobIds |-> NoJob]
    /\ nextJobId = 1
    /\ serial = FALSE
    /\ InitProcs
    /\ InitSvc

NextProxy ==
    \E c \in Callers :
        \/ GetProxy(c) \/ FetchProxy(c) \/ FetchProxyRetry(c) \/ NextTier(c)
        \/ ProxyReturn(c)

SpecProxy == InitProxyPar /\ [][NextProxy]_vars

\* the proxy service under getProxy calls that come one after the other, with
\* clearUsedProxies / clearAllUsedProxies between them
InitProxySeq ==
    /\ now = 1
    /\ cache = [k \in Keys |-> NoEntry]
    /\ nextCacheId = 1
    /\ jobs = [i \in JobIds |-> NoJob]
    /\ nextJobId = 1
    /\ serial = TRUE
    /\ InitProcs
    /\ InitSvc

NextProxySeq ==
    \/ NextProxy
    \/ \E t \in Targets : ClearUsedProxies(t)
    \/ ClearAllUsedProxies

SpecProxySeq == InitProxySeq /\ [][NextProxySeq]_vars

\* one crawl call, of reviews or of search results
InitCrawlCall ==
    /\ now = 1
    /\ cache = [k \in Keys |-> NoEntry]
    /\ nextCacheId = 1
    /\ jobs = [i \in JobIds |-> NoJob]
    /\ nextJobId = 1
    /\ serial = FALSE
    /\ InitProcs
    /\ InitSvc

NextCrawl ==
    \/ \E kind \in {"reviews", "search"} : CrawlStart(kind)
    \/ AttemptGetProxy \/ AttemptInitBrowser \/ AttemptCreatePage \/ AttemptGoto
    \/ AttemptFailed \/ CloseFailed
    \/ Extract \/ RecordSuccess \/ Catch \/ Finally

SpecCrawl == InitCrawlCall /\ [][NextCrawl]_vars

\* one call of collectReviews: options.maxReviews is absent (0) or a number, and
\* the environment's default applies when it is absent or 0
InitCollect ==
    /\ now = 1
    /\ cache = [k \in Keys |-> NoEntry]
    /\ nextCacheId = 1
    /\ jobs = [i \in JobIds |-> NoJob]
    /\ nextJobId = 1
    /\ serial = FALSE
    /\ InitProcs
    /\ params = <<>>
    /\ cacheKey = <<>>
    /\ InitProxy
    /\ cr = [pc |-> "idle", kind |-> "", attempt |-> 0, proxy |-> NoProxy,
             browser |-> FALSE, page |-> FALSE, raised |-> FALSE, connected |-> FALSE,
             ret |-> NoResult, result |-> NoResult]
    /\ sessions = 0
    /\ usage = [r \in CrawlAddrs \X BOOLEAN |-> 0]
    /\ InitDiscovery
    /\ \E optionsMaxReviews \in 0..DefaultMaxReviews :
         col = [NoCollect EXCEPT !.pc = "start",
                                 !.maxReviews = IF optionsMaxReviews # 0
                                                  THEN optionsMaxReviews
                                                  ELSE DefaultMaxReviews]

NextCollect == CollectStart \/ CollectExtract \/ CollectScroll

SpecCollect == InitCollect /\ [][NextCollect]_vars

\* the same call when the awaits of the loop come back
SpecCollectFair == InitCollect /\ [][NextCollect]_vars /\ WF_vars(NextCollect)

\* discover calls that may overlap, on one state of Google Maps, with the quota
\* store at any count of the first month
InitDiscover ==
    /\ now = 1
    /\ cache = [k \in Keys |-> NoEntry]
    /\ nextCacheId = 1
    /\ jobs = [i \in JobIds |-> NoJob]
    /\ nextJobId = 1
    /\ serial = FALSE
    /\ InitProcs
    /\ params = <<>>
    /\ cacheKey = <<>>
    /\ InitProxy
    /\ InitCrawl
    /\ quota \in [month : {0, 1}, count : 0..MonthlyLimit]
    /\ quota.month = 0 => quota.count = 0
    /\ curMonth = 1
    /\ maps \in [crawl : {<<Listing1, Listing4>>}, api : {<<Place1, Place2>>},
                 db : BOOLEAN]
    /\ dv = [d \in Discoverers |-> NoDiscover]
    /\ calls = [NoCalls EXCEPT !.search[1] = quota.count]

NextDiscover ==
    \/ MonthTick
    \/ \E d \in Discoverers :
        \/ DiscoverStart(d)
        \/ CanMakeCallMonth(d) \/ CanMakeCallResetMonth(d) \/ CanMakeCallResetCount(d)
        \/ CanMakeCallCount(d)
        \/ Launch(d) \/ ScrapeSettle(d) \/ ApiSearch(d)
        \/ IncrementMonth(d) \/ IncrementResetMonth(d) \/ IncrementResetCount(d)
        \/ IncrementRead(d) \/ IncrementWrite(d)
        \/ Join(d) \/ DiscoverReturn(d)

SpecDiscover == InitDiscover /\ [][NextDiscover]_vars

\* one discover call at a time, on every state of Google Maps of the model
InitMerge ==
    /\ now = 1
    /\ cache = [k \in Keys |-> NoEntry]
    /\ nextCacheId = 1
    /\ jobs = [i \in JobIds |-> NoJob]
    /\ nextJobId = 1
    /\ serial = TRUE
    /\ InitProcs
    /\ params = <<>>
    /\ cacheKey = <<>>
    /\ InitProxy
    /\ InitCrawl
    /\ quota = [month |-> 0, count |-> 0]
    /\ curMonth = 1
    /\ maps \in [crawl : ScrapeLists, api : ApiLists, db : {TRUE}]
    /\ dv = [d \in Discoverers |-> NoDiscover]
    /\ calls = NoCalls

SpecMerge == InitMerge /\ [][NextDiscover]_vars

\* one recommendation request at a time: discover, then the place details the
\* route asks for
InitCalls ==
    /\ InitMerge
    /\ maps.api = <<Place1, Place2>>
    /\ Len(maps.crawl) <= 1

NextCalls ==
    \/ NextDiscover
    \/ \E d \in Discoverers : PlaceDetails(d)

SpecCalls == InitCalls /\ [][NextCalls]_vars

\* ------------------------------------------------------------------ claims
\* the non-terminal (pending or running) jobs of one type for one target
NonTerminalJobs(js, type, target) ==
    {i \in JobIds : js[i].type = type /\ js[i].target = target
                    /\ js[i].status \in {"pending", "running"}}

\* C1: when scheduleRefresh(X) is called while a job of an earlier call for X is
\* still pending or running, and the calls come one after the other, the call
\* creates no job and returns that job unchanged, and exactly one non-terminal
\* refresh_cache job exists for X afterwards.
C1_SecondScheduleReturnsExisting ==
    [][\A p \in Procs :
        (/\ pc[p] = "schedule" /\ pc'[p] # "schedule"
         /\ call[p].type = "refresh_cache"
         /\ NonTerminalJobs(jobs, "refresh_cache", call[p].target) # {})
        => /\ pc'[p] = "done"
           /\ jobs' = jobs /\ nextJobId' = nextJobId
           /\ sched'[p] \in NonTerminalJobs(jobs, "refresh_cache", call[p].target)
           /\ Cardinality(NonTerminalJobs(jobs', "refresh_cache", call[p].target)) = 1]_vars

\* C1 witness: a scheduleRefresh call has returned the job of an earlier call, which
\* is running at that time
C1_Witness ==
    \E p \in Procs :
        /\ pc[p] = "done" /\ call[p].type = "refresh_cache"
        /\ found[p] # 0 /\ sched[p] = found[p]
        /\ jobs[found[p]].status = "running"
        /\ nextJobId = 2

\* C2: at most one pending or running job exists per (type, target) pair, in every
\* reachable state, whatever the interleaving of the callers of scheduleRefresh /
\* scheduleScrape.
C2_OneNonTerminalJobPerTarget ==
    \A i, j \in JobIds :
        (/\ jobs[i].status \in {"pending", "running"}
         /\ jobs[j].status \in {"pending", "running"}
         /\ jobs[i].type = jobs[j].type
         /\ jobs[i].target = jobs[j].target)
        => i = j

\* C3: when the handler of a running job throws, attempts grows by exactly one and
\* lastError is recorded; the job then becomes failed if that attempts count has
\* reached maxAttempts, and pending otherwise.
C3_HandlerFailure ==
    [][\A p \in Procs :
        /\ (pc[p] = "fail_count" /\ pc'[p] = "fail_status")
            => /\ jobs'[job[p]].attempts = jobs[job[p]].attempts + 1
               /\ jobs'[job[p]].lastError # ""
               /\ jobs'[job[p]].status = jobs[job[p]].status
               /\ upd'[p] = jobs'[job[p]].attempts
               /\ \A i \in JobIds \ {job[p]} : jobs'[i] = jobs[i]
        /\ (pc[p] = "fail_status" /\ pc'[p] = "next_job")
            => /\ (upd[p] >= MaxAttempts => jobs'[job[p]].status = "failed")
               /\ (upd[p] < MaxAttempts => jobs'[job[p]].status = "pending")
               /\ jobs'[job[p]].attempts = jobs[job[p]].attempts
               /\ \A i \in JobIds \ {job[p]} : jobs'[i] = jobs[i]]_vars

\* C3 witness: a handler has thrown for the last allowed time and the job is failed
C3_Witness ==
    \E p \in Procs :
        /\ pc[p] = "next_job" /\ job[p] # 0 /\ upd[p] = MaxAttempts
        /\ jobs[job[p]].status = "failed"
        /\ jobs[job[p]].attempts = MaxAttempts
        /\ jobs[job[p]].lastError = "error"

\* C4: a job only moves pending -> running -> {completed, pending, failed}; a
\* completed or failed job never changes its status again and is never run again.
C4_TerminalJobsStayTerminal ==
    [][\A i \in JobIds :
        jobs'[i].status # jobs[i].status
        => \/ jobs[i].status = "none" /\ jobs'[i].status = "pending"
           \/ jobs[i].status = "pending" /\ jobs'[i].status = "running"
           \/ jobs[i].status = "running"
                /\ jobs'[i].status \in {"completed", "pending", "failed"}]_vars

\* a step of p that is lookup()'s findUnique
LookupStep(p) ==
    /\ pc[p] = "idle"
    /\ \/ pc'[p] \in {"discover", "lookup_markstale", "lookup_recordhit"}
       \/ pc'[p] = "schedule" /\ look'[p] = "stale"

\* C5: a lookup of an existing entry at a time now with
\* expiresAt - staleGrace < now <= expiresAt reports stale with the entry and leaves
\* hitCount and lastAccessedAt (the whole row) as they were.
C5_StaleLookupLeavesEntry ==
    [][\A p \in Procs :
        LET entry == cache[key'[p]] IN
        (/\ LookupStep(p)
         /\ entry.id # 0
         /\ entry.expiresAt - StaleGraceMs < now
         /\ now <= entry.expiresAt)
        => /\ look'[p] = "stale"
           /\ pc'[p] = "schedule"
           /\ snap'[p] = entry
           /\ cache' = cache]_vars

\* C5 witness: a lookup has reported stale at the last instant of the entry's life
C5_Witness ==
    \E p \in Procs :
        /\ look[p] = "stale" /\ pc[p] = "schedule"
        /\ snap[p].id # 0 /\ now = snap[p].expiresAt
        /\ cache[key[p]] = snap[p]

C8_StaleServedWithOneRefresh ==
    \A p \in Procs :
        (pc[p] = "done" /\ look[p] = "stale" /\ sched[p] > 0)
        => /\ resp[p].kind = "cached"
           /\ resp[p].results = snap[p].results
           /\ out[p] = NoOutcome
           /\ Cardinality(NonTerminalJobs(jobs, "refresh_cache", snap[p].id)) = 1

C10_StoreReplaces ==
    [][\A p \in Procs :
        (pc[p] = "store_write" /\ stored'[p] = "ok")
        => LET e == cache'[key[p]] IN
           /\ e.id # 0
           /\ e.status = "fresh"
           /\ e.expiresAt = now + TtlMs
           /\ e.results = out[p].results
           /\ e.message = out[p].message
           /\ e.restaurants = out[p].sourceIds
           /\ \A k \in Keys \ {key[p]} : cache'[k] = cache[k]]_vars

\* C10 witness: store() has replaced an entry that held another list and message
C10_Witness ==
    \E p \in Procs :
        /\ pc[p] = "done" /\ stored[p] = "ok" /\ exist[p]
        /\ snap[p].id # 0
        /\ snap[p].results # out[p].results /\ snap[p].message # out[p].message
        /\ cache[key[p]].id = snap[p].id
        /\ cache[key[p]].results = out[p].results
        /\ cache[key[p]].expiresAt = now + TtlMs

\* C11: cleanupExpired never deletes a hot entry: a row is deleted only if
\* expiresAt < now and it has not been accessed within the stale-grace window, so
\* a row whose latest lookup (hit, stale or expired) returned less than staleGrace
\* ago is never deleted, and an unexpired row is never deleted.
C11_CleanupSparesHotEntries ==
    [][\A k \in Keys :
          (cache[k].id # 0 /\ cache'[k].id = 0) =>
              /\ cache[k].expiresAt < now
              /\ cache[k].lastAccessedAt < now - StaleGraceMs
              /\ ~(lookedAt[cache[k].id] > now - StaleGraceMs)]_vars

Round4(x) == IF x < 0 THEN -((5 - x) \div 10) ELSE (x + 5) \div 10

SameNormalized(a, b) ==
    /\ trim(toLowerCase(a.foodQuery)) = trim(toLowerCase(b.foodQuery))
    /\ Round4(a.latitude) = Round4(b.latitude)
    /\ Round4(a.longitude) = Round4(b.longitude)
    /\ a.radiusKm = b.radiusKm

\* C13: two parameter sets whose query texts are equal after lowercasing and
\* trimming, whose latitudes and longitudes are equal after rounding to 4
\* decimals and whose radii are equal yield the same key, and two parameter sets
\* that differ in a normalized component yield different keys.
C13_KeyOfNormalizedInputs ==
    (cacheKey[1] # <<>> /\ cacheKey[2] # <<>>) =>
        (SameNormalized(params[1], params[2]) <=> cacheKey[1] = cacheKey[2])

\* a getProxy call returns a proxy at this step
Returns(c) == gp[c].pc # "done" /\ gp'[c].pc = "done" /\ gp'[c].proxy # NoProxy

\* C14: for one target, a getProxy call never returns an address that an earlier
\* getProxy call returned for that target since the last clearUsedProxies of the
\* target; after the clear the addresses issued before can be returned again.
C14_NoAddressTwicePerTarget ==
    [][\A c \in Callers :
          Returns(c) => gp'[c].proxy.address \notin issued[gp[c].placeId]]_vars

\* C14 witness: after a clear, a call has returned for a target the address that
\* the call before the clear returned for it
C14_Witness ==
    /\ serial
    /\ gp["c1"].pc = "done" /\ gp["c2"].pc = "done"
    /\ gp["c1"].placeId = gp["c2"].placeId
    /\ gp["c1"].proxy # NoProxy
    /\ gp["c1"].proxy.address = gp["c2"].proxy.address
    /\ Cardinality(issued[gp["c1"].placeId]) = 1

\* C15: two getProxy calls for the same target that run concurrently never both
\* return the same address.
C15_ConcurrentCallsDiffer ==
    \A c \in Callers : \A d \in Callers \ {c} :
        (/\ gp[c].pc = "done" /\ gp[d].pc = "done"
         /\ d \in gp[c].concurrent
         /\ gp[c].placeId = gp[d].placeId
         /\ gp[c].proxy # NoProxy /\ gp[d].proxy # NoProxy)
        => gp[c].proxy.address # gp[d].proxy.address

\* C16: for every preferredTier (high, medium or low), getProxy asks for the
\* preferred tier first and for another tier only after the preferred tier gave
\* no proxy, so that a proxy of another tier is returned only then.
C16_PreferredTierFirst ==
    \A c \in Callers :
        gp[c].pc # "idle" =>
            /\ gp[c].tiers[1] = gp[c].preferredTier
            /\ gp[c].tiers[gp[c].i] # gp[c].preferredTier => gp[c].i > 1

\* C17: scrapeReviews and scrapeSearchResults never throw past the call boundary:
\* when all connection attempts fail or an extraction step raises, the call
\* returns a result with success = false, an empty list and an error text.
C17_CrawlNeverThrows ==
    cr.pc = "done" =>
        /\ cr.result # Thrown
        /\ cr.raised => (/\ ~cr.result.success
                         /\ cr.result.items = 0
                         /\ cr.result.error # "")

\* C18: when the quota store is disabled or cannot be read, or the count read is
\* at the monthly limit, discover sends no request to the official API and
\* returns apiCallUsed = false and apiCount = 0, and every returned restaurant is
\* a listing of the crawler (no place id, the name of a crawled listing)
QuotaExhausted(d) ==
    ~maps.db \/ dv[d].failed \/ dv[d].counted >= MonthlyLimit

FromCrawler(r) ==
    /\ r.placeId = 0
    /\ \E k \in 1..Len(maps.crawl) : maps.crawl[k].name = r.name /\ ~maps.crawl[k].isSponsored

C18_ExhaustedQuotaSkipsApi ==
    \A d \in Discoverers :
        (dv[d].pc \in {"await", "done"} /\ QuotaExhausted(d)) =>
            /\ ~dv[d].called
            /\ dv[d].api = ""
            /\ dv[d].pc = "done" =>
                /\ dv[d].result.apiCallUsed = FALSE
                /\ dv[d].result.apiCount = 0
                /\ \A k \in 1..Len(dv[d].result.restaurants) :
                       FromCrawler(dv[d].result.restaurants[k])

\* a call that read a count at the limit has returned crawled restaurants, and
\* another call whose read of the store failed has returned too
C18_Witness ==
    /\ dv["d1"].pc = "done" /\ dv["d1"].counted >= MonthlyLimit
    /\ dv["d1"].result.restaurants # <<>>
    /\ dv["d2"].pc = "done" /\ dv["d2"].failed

\* C19: discover waits for both branches and a failed branch does not fail the
\* call: it always returns a result; with the API branch failed the crawl's
\* restaurants are returned, with the crawl branch failed the API's are, and with
\* both failed the list is empty
CrawlFailed(d) == ~(dv[d].scrapeSettled.status = "fulfilled" /\ dv[d].scrapeSettled.success)

ApiFailed(d) == dv[d].apiSettled = Rejected

C19_BarrierToleratesFailures ==
    \A d \in Discoverers :
        dv[d].pc = "done" =>
            LET r == dv[d].result
                crawled == filterNotSponsored(dv[d].scrapeSettled.value)
            IN  /\ dv[d].scrapeSettled # Pending /\ dv[d].apiSettled # Pending
                /\ r.kind = "returned"
                /\ (ApiFailed(d) /\ ~CrawlFailed(d)) =>
                       /\ r.scrapeCount = Len(crawled)
                       /\ crawled # <<>> => r.restaurants # <<>>
                       /\ \A k \in 1..Len(r.restaurants) : r.restaurants[k].placeId = 0
                /\ (CrawlFailed(d) /\ apiUsed(dv[d].apiSettled)) =>
                       /\ r.apiCount = Len(dv[d].apiSettled.value)
                       /\ r.restaurants = slice(dv[d].apiSettled.value, TopN)
                /\ (CrawlFailed(d) /\ ~apiUsed(dv[d].apiSettled)) =>
                       r.restaurants = <<>>

\* one call has returned the crawl's restaurants after the API branch was
\* rejected, another an empty list after both branches were rejected
C19_Witness ==
    /\ dv["d1"].pc = "done" /\ dv["d1"].apiSettled = Rejected
    /\ ~CrawlFailed("d1") /\ dv["d1"].result.restaurants # <<>>
    /\ dv["d2"].pc = "done" /\ dv["d2"].apiSettled = Rejected
    /\ dv["d2"].scrapeSettled = Rejected /\ dv["d2"].result.restaurants = <<>>

\* C20: a crawled listing and an API place whose names are the same up to letter
\* case by the Turkish alphabet, and which lie within 0.1 km of each other, are
\* one entry of the result, marked "both" (for results the top-N cut leaves whole)
SameNameTurkish(a, b) == toTurkishLowerCase(a) = toTurkishLowerCase(b)

C20_TurkishCaseNamesMerge ==
    \A d \in Discoverers :
        (dv[d].pc = "done" /\ dv[d].result.apiCount + dv[d].result.scrapeCount <= TopN) =>
            LET r == dv[d].result.restaurants
                api == IF apiUsed(dv[d].apiSettled) THEN dv[d].apiSettled.value ELSE <<>>
                scr == scrapeRestaurantsOf(dv[d].scrapeSettled)
            IN  \A i \in 1..Len(api), j \in 1..Len(scr) :
                    (/\ SameNameTurkish(api[i].name, scr[j].name)
                     /\ areClose(api[i].pos, scr[j].pos, CloseThreshold)) =>
                        /\ \E k \in 1..Len(r) :
                               r[k].placeId = api[i].placeId /\ r[k].source = "both"
                        /\ Len(r) < Len(api) + Len(scr)

\* C21: a crawled listing and an API place whose names areNamesSimilar accepts
\* and which lie 1 km apart (20 units of 50 m) both remain in the result: the
\* listing is an entry of its own (for results the top-N cut leaves whole)
C21_SimilarNamesFarApartStayDistinct ==
    \A d \in Discoverers :
        (dv[d].pc = "done" /\ dv[d].result.apiCount + dv[d].result.scrapeCount <= TopN) =>
            LET r == dv[d].result.restaurants
                api == IF apiUsed(dv[d].apiSettled) THEN dv[d].apiSettled.value ELSE <<>>
                scr == scrapeRestaurantsOf(dv[d].scrapeSettled)
            IN  \A i \in 1..Len(api), j \in 1..Len(scr) :
                    (/\ areNamesSimilar(api[i].name, scr[j].name)
                     /\ api[i].pos # 0 /\ scr[j].pos # 0
                     /\ calculateDistance(api[i].pos, scr[j].pos) = 20) =>
                        /\ \E k \in 1..Len(r) :
                               r[k].placeId = 0 /\ r[k].name = scr[j].name
                        /\ \E k \in 1..Len(r) :
                               r[k].placeId = api[i].placeId /\ r[k].source = "api"

\* C22: the month marker and the count change together: a step that records a
\* new month marker leaves the count at zero, and the count goes down only in a
\* step that records a new month marker
C22_ResetAtomicWithMarker ==
    [][/\ quota'.month # quota.month => quota'.count = 0
       /\ quota'.count < quota.count => quota'.month # quota.month]_vars

\* C23: the nearby-search requests sent within one calendar month never exceed
\* the monthly limit
C23_SearchesWithinMonthlyLimit ==
    \A m \in 1..MaxMonth : calls.search[m] <= MonthlyLimit

\* C24: a request goes to the official API only from a call whose canMakeCall
\* returned true and whose branch goes on to increment the counter
C24_ApiCallsPassQuota ==
    [][calls' # calls =>
          \E d \in Discoverers :
              /\ dv[d].canUseApi
              /\ dv[d].api = "" /\ dv'[d].api = "search"
              /\ calls'.details = calls.details]_vars

\* C25: a request that got as far as a stale hit or a computed result answers
\* with its recommendations, whatever the job store and the cache store did:
\* after a stale lookup the response is the cached list, and after discovery
\* produced an outcome the response is that outcome, also when store() failed
C25_StoreFailuresDoNotFailRequest ==
    \A p \in Procs :
        pc[p] = "done" =>
            /\ look[p] = "stale" => resp[p] = CachedResponse(snap[p])
            /\ stored[p] = "null" =>
                   resp[p] = [kind |-> "fresh", results |-> out[p].results,
                              message |-> out[p].message]

\* C26: when the selection of a processing pass returns, it holds at most
\* JobLimit jobs, each was pending and due, they are in the order priority
\* descending then scheduledAt ascending, and each is running in the store
C26_ClaimBatchMarksRunning ==
    [][\A p \in Procs :
          (pc[p] = "idle" /\ pc'[p] = "next_job") =>
              LET b == batch'[p]
              IN  /\ Len(b) <= JobLimit
                  /\ \A i \in 1..Len(b) :
                         /\ jobs[b[i]].status = "pending"
                         /\ jobs[b[i]].scheduledAt <= now
                         /\ jobs'[b[i]].status = "running"
                  /\ \A i, j \in 1..Len(b) : i < j => Before(jobs, b[i], b[j])]_vars

\* C27: the step that ends a successful refresh leaves the entry fresh, expiring
\* one configured TTL after that moment, with the result list of the re-crawl
C27_RefreshRestoresEntry ==
    [][\A p \in Procs :
          (pc[p] = "refresh_store" /\ pc'[p] = "complete") =>
              \A k \in Keys :
                  cache[k].id = snap[p].id =>
                      /\ cache'[k].status = "fresh"
                      /\ cache'[k].expiresAt = getExpiryDate(now)
                      /\ cache'[k].results = out[p].results]_vars

\* C28: from the moment a running refresh job has marked its entry until its
\* last write, the entry's stored status is refreshing
C28_RefreshingWhileJobRuns ==
    \A p \in Procs :
        (/\ pc[p] \in {"scrape", "refresh_store"}
         /\ jobs[job[p]].type = "refresh_cache"
         /\ jobs[job[p]].status = "running") =>
            \A k \in Keys : cache[k].id = snap[p].id => cache[k].status = "refreshing"

\* C29: a crawl call never goes beyond attempt 10; a new attempt starts only
\* after a failed one, before any attempt has succeeded, and starts by getting a
\* proxy; and a call that ends with all 10 attempts failed returns a failure result
C29_AtMostTenAttempts ==
    [][/\ cr'.attempt <= MaxProxyAttempts
       /\ cr'.attempt # cr.attempt =>
              /\ cr'.pc = "get_proxy"
              /\ ~cr.connected
              /\ cr.pc = "idle" \/ (cr.pc = "close_failed" /\ cr'.attempt = cr.attempt + 1)
       /\ (cr'.pc = "done" /\ ~cr'.connected /\ cr'.attempt = MaxProxyAttempts) =>
              /\ cr'.result.kind = "returned"
              /\ ~cr'.result.success]_vars

\* the loop part of C29 alone
AttemptsBounded ==
    [][/\ cr'.attempt <= MaxProxyAttempts
       /\ cr'.attempt # cr.attempt =>
              /\ cr'.pc = "get_proxy"
              /\ ~cr.connected
              /\ cr.pc = "idle" \/ (cr.pc = "close_failed" /\ cr'.attempt = cr.attempt + 1)]_vars

\* C30: a crawl has a browser session open, or is navigating, only with a proxy
\* it got from the proxy service
C30_NoDirectConnection ==
    (cr.browser \/ cr.pc \in {"create_page", "goto", "extract"}) => cr.proxy # NoProxy

\* C40: every returned restaurant marked "both" carries the place id of an API
\* result, and a result with no API restaurants has no restaurant marked "both"
C40_BothMeansApiMatched ==
    \A d \in Discoverers :
        dv[d].pc = "done" =>
            LET r == dv[d].result.restaurants
            IN  \A k \in 1..Len(r) :
                    r[k].source = "both" =>
                        /\ dv[d].result.apiCount > 0
                        /\ \E i \in 1..Len(dv[d].apiSettled.value) :
                               dv[d].apiSettled.value[i].placeId = r[k].placeId

\* at most one browser is open during a crawl call; not a claim by itself
OneSessionAtATime == sessions <= 1

\* C31: a crawl call holds at most one open browser session at any time, and once
\* it has returned or thrown, every session it opened is closed
C31_SessionsClosedOnReturn ==
    /\ sessions <= 1
    /\ cr.pc = "done" => sessions = 0

\* C32: every usage record written by a crawl is one record for the proxy of the
\* attempt whose flag is the outcome (failed in the catch of an attempt, success
\* after extraction), and a session with a proxy whose extraction throws after it
\* connected leaves a failed record
C32_OneUsageRecordPerOutcome ==
    [][/\ usage' # usage =>
            /\ cr.proxy # NoProxy
            /\ cr.pc \in {"attempt_failed", "record_success"}
            /\ usage' = [usage EXCEPT ![<<cr.proxy.address, cr.pc = "record_success">>] = @ + 1]
       /\ (cr.pc = "catch" /\ cr.connected /\ cr.proxy # NoProxy /\ cr'.pc = "finally")
            => usage' # usage]_vars

\* C35: no increment of the monthly counter is lost: every search call whose
\* increment is stored leaves the stored counter one higher than it was, whatever
\* else ran in between
C35_NoLostIncrement ==
    [][\A d \in Discoverers :
          (~dv[d].wrote /\ dv'[d].wrote) => quota'.count = quota.count + 1]_vars

\* a terminal job that cleanupOldJobs(7) is to delete at time t
OldJob(js, i, t) ==
    /\ js[i].status \in {"completed", "failed"}
    /\ js[i].completedAt # 0
    /\ js[i].completedAt < t - JobRetentionMs

\* C36: cleanup deletes terminal jobs past the retention window and no others
\* (never a pending or running job), and it leaves none of them behind, both
\* when the handler of a cleanup_expired job has run and when the cleanup action
\* of the cron endpoint has
C36_CleanupDeletesOldTerminalJobs ==
    [][/\ \A i \in JobIds :
            (jobs[i].status # "none" /\ jobs'[i].status = "none") =>
                /\ OldJob(jobs, i, now)
                /\ \A j \in JobIds : ~OldJob(jobs', j, now)
       /\ \A p \in Procs :
            (pc[p] = "cleanup" /\ pc'[p] = "complete") =>
                \A j \in JobIds : ~OldJob(jobs', j, now)]_vars

\* the cron cleanup alone: it deletes the completed jobs past the window and
\* nothing else; not a claim by itself
CronCleanupDeletes ==
    [][\A i \in JobIds :
            (jobs[i].status # "none" /\ jobs'[i].status = "none") =>
                /\ OldJob(jobs, i, now)
                /\ \A j \in JobIds : ~OldJob(jobs', j, now)]_vars

\* the refresh jobs of the entry with this id that have one of the statuses
refreshJobs(js, id, statuses) ==
    {i \in JobIds : /\ js[i].type = "refresh_cache"
                    /\ js[i].target = id
                    /\ js[i].status \in statuses}

\* C37: an entry that has a terminal refresh job and no running refresh job is
\* not in status refreshing
C37_NoRefreshingAfterTerminalJob ==
    \A k \in Keys :
        (/\ cache[k].id # 0
         /\ refreshJobs(jobs, cache[k].id, {"completed", "failed"}) # {}
         /\ refreshJobs(jobs, cache[k].id, {"running"}) = {}) =>
            cache[k].status # "refreshing"

\* the positions inside the handler of a job
HandlerPcs == {"refresh_find", "refresh_mark", "scrape", "refresh_store", "cleanup"}

\* C38: when processing passes overlap, a job is run by at most one of them at a
\* time (its handler never executes twice at once), and its completion is
\* recorded once: a job that is completed is not marked completed again
C38_JobRunByOnePass ==
    [][/\ \A p \in Procs, q \in Procs :
            (/\ p # q
             /\ pc'[p] \in HandlerPcs
             /\ pc'[q] \in HandlerPcs) => job'[p] # job'[q]
       /\ \A p \in Procs :
            (pc[p] = "complete" /\ pc'[p] = "next_job") =>
                jobs[job[p]].status # "completed"]_vars

\* the same passes one after the other; not a claim by itself
HandlersDisjoint ==
    \A p \in Procs, q \in Procs :
        (p # q /\ pc[p] \in HandlerPcs /\ pc[q] \in HandlerPcs) => job[p] # job[q]

\* C33: the list collectReviews returns has no two reviews with the same author
\* and the same text and no more reviews than the maximum of the call, whatever
\* the extractions returned; the list it builds is the same at every step
C33_ReviewsUniqueAndCapped ==
    /\ Len(col.reviews) <= col.maxReviews
    /\ \A i \in 1..Len(col.reviews), j \in 1..Len(col.reviews) :
           (/\ col.reviews[i].authorName = col.reviews[j].authorName
            /\ col.reviews[i].text = col.reviews[j].text) => i = j
    /\ (col.pc = "done" /\ ~col.threw) => col.ret = col.reviews

\* a call that returned a full list after it skipped a duplicate card and left
\* out a new card for lack of room
C33_Witness ==
    /\ col.pc = "done"
    /\ ~col.threw
    /\ col.seenDuplicate
    /\ col.overCap
    /\ Len(col.ret) = col.maxReviews
    /\ col.maxReviews < DefaultMaxReviews

\* C34: the collection loop terminates; it never scrolls more than 10 times, it
\* is over once three iterations in a row have added no review, and it starts no
\* iteration with a full list
C34_CollectionTerminates ==
    /\ <>(col.pc = "done")
    /\ [](/\ col.scrollAttempts <= MaxScrollAttempts
          /\ col.noNewReviewsCount <= 3
          /\ col.noNewReviewsCount = 3 => col.pc = "done"
          /\ col.pc = "extract" => Len(col.reviews) < col.maxReviews)

\* calls that ended for each of the three reasons are told apart by their
\* counters; this one used up its 10 scrolls
C34_Witness ==
    /\ col.pc = "done"
    /\ ~col.threw
    /\ col.scrollAttempts = MaxScrollAttempts
    /\ col.noNewReviewsCount < 3
    /\ Len(col.reviews) < col.maxReviews

\* C39: an entry with a scheduled (pending) refresh job eventually is fresh with
\* an expiry in the future, when the scheduler keeps processing and the crawls
\* and the writes succeed in the end
C39_ScheduledRefreshEventuallyFresh ==
    \A k \in Keys :
        (/\ cache[k].id # 0
         /\ refreshJobs(jobs, cache[k].id, {"pending"}) # {})
            ~> (cache[k].status = "fresh" /\ cache[k].expiresAt > now)

====
